---- MODULE Spec2Model ----
(***************************************************************************)
(* The agent invocation loop of bedrock_agents_sdk (core/client.py):       *)
(* Client.run validates its arguments and enters Client._invoke_agent,     *)
(* which calls the remote endpoint, scans the response, executes the       *)
(* requested tool and recurses with the tool's result until a text-only    *)
(* turn, a tool failure, a caught error or the turn ceiling.               *)
(*                                                                         *)
(* Text is a sequence of tokens (a chunk's decoded bytes are one or more   *)
(* tokens, "\n" is a token), a Python dict is a function whose domain is   *)
(* its key set, an optional value is a sequence of length 0 or 1.          *)
(***************************************************************************)
EXTENDS Integers, Sequences, FiniteSets, TLC

\* The largest max_tool_calls a Client is constructed with in the model.
MaxCeiling == 2

----------------------------------------------------------------------------
(* Python values *)

NoneOpt == <<>>
Some(x) == <<x>>

EmptyDict == [k \in {} |-> TRUE]
Put(d, k, v) == [x \in (DOMAIN d) \cup {k} |-> IF x = k THEN v ELSE d[x]]
Get(d, k, default) == IF k \in DOMAIN d THEN d[k] ELSE default

PyNone == [t |-> "NoneType"]
PyStr(s) == [t |-> "str", s |-> s]
PyInt(n) == [t |-> "int", n |-> n]
\* A float is num / 10^scale, kept with the smallest scale.
PyFloat(num, scale) == [t |-> "float", num |-> num, scale |-> scale]
PyBool(b) == [t |-> "bool", b |-> b]
PyDict(items) == [t |-> "dict", items |-> items]
PySet == [t |-> "set"]
PyList(items) == [t |-> "list", items |-> items]

\* Python truthiness, as used by `if not result:`
\* Faulty variant: only None counts as no result.
Truthy_noneOnly(v) == v.t # "NoneType"

Truthy(v) ==
    CASE v.t = "NoneType" -> FALSE
      [] v.t = "str" -> v.s # <<>>
      [] v.t = "float" -> v.num # 0
      [] v.t = "int" -> v.n # 0
      [] v.t = "bool" -> v.b
      [] v.t = "dict" -> v.items # <<>>
      [] v.t = "list" -> v.items # <<>>
      [] OTHER -> TRUE

Ok(v) == [ok |-> TRUE, v |-> v]
Raise(e) == [ok |-> FALSE, e |-> e]

Pow10(k) == CASE k = 0 -> 1 [] k = 1 -> 10 [] k = 2 -> 100 [] OTHER -> 1000
Abs(n) == IF n < 0 THEN 0 - n ELSE n

\* repr of a float: sign, integer part, ".", fractional digits ("2.0", "1.5").
FloatRepr(v) ==
    LET ip == Abs(v.num) \div Pow10(v.scale)
        fp == Abs(v.num) % Pow10(v.scale)
        pad == IF v.scale = 2 /\ fp < 10 THEN <<"0">> ELSE <<>>
    IN (IF v.num < 0 THEN <<"-">> ELSE <<>>) \o <<ToString(ip), ".">> \o pad \o <<ToString(fp)>>

\* json.dumps with the default separators; the text is a token sequence.
RECURSIVE json_dumps(_)
RECURSIVE json_items(_)
RECURSIVE json_elements(_)
json_elements(items) ==
    IF items = <<>> THEN Ok(<<>>)
    ELSE LET val == json_dumps(Head(items))
             rest == json_elements(Tail(items))
         IN IF ~val.ok THEN val
            ELSE IF ~rest.ok THEN rest
            ELSE Ok(val.v \o (IF Tail(items) = <<>> THEN <<>> ELSE <<", ">>) \o rest.v)
json_items(items) ==
    IF items = <<>> THEN Ok(<<>>)
    ELSE LET val == json_dumps(Head(items)[2])
             rest == json_items(Tail(items))
         IN IF ~val.ok THEN val
            ELSE IF ~rest.ok THEN rest
            ELSE Ok(<<"\"", Head(items)[1], "\"", ": ">> \o val.v
                    \o (IF Tail(items) = <<>> THEN <<>> ELSE <<", ">>) \o rest.v)
json_dumps(v) ==
    CASE v.t = "NoneType" -> Ok(<<"null">>)
      [] v.t = "str" -> Ok(<<"\"">> \o v.s \o <<"\"">>)
      [] v.t = "int" -> Ok(<<ToString(v.n)>>)
      [] v.t = "float" -> Ok(FloatRepr(v))
      [] v.t = "bool" -> Ok(IF v.b THEN <<"true">> ELSE <<"false">>)
      [] v.t = "dict" -> LET inner == json_items(v.items)
                         IN IF inner.ok THEN Ok(<<"{">> \o inner.v \o <<"}">>) ELSE inner
      [] v.t = "list" -> LET inner == json_elements(v.items)
                         IN IF inner.ok THEN Ok(<<"[">> \o inner.v \o <<"]">>) ELSE inner
      [] OTHER -> Raise("Object of type set is not JSON serializable")

----------------------------------------------------------------------------
(* utils/parameter_conversion.py *)

Digits == {"0", "1", "2", "3", "4", "5", "6", "7", "8", "9"}
DigitValue(c) ==
    CASE c = "0" -> 0 [] c = "1" -> 1 [] c = "2" -> 2 [] c = "3" -> 3
      [] c = "4" -> 4 [] c = "5" -> 5 [] c = "6" -> 6 [] c = "7" -> 7
      [] c = "8" -> 8 [] OTHER -> 9

RECURSIVE DigitsValue(_)
DigitsValue(ds) ==
    IF ds = <<>> THEN 0
    ELSE DigitsValue(SubSeq(ds, 1, Len(ds) - 1)) * 10 + DigitValue(ds[Len(ds)])

RECURSIVE StripZeros(_)
StripZeros(ds) ==
    IF ds # <<>> /\ ds[Len(ds)] = "0" THEN StripZeros(SubSeq(ds, 1, Len(ds) - 1)) ELSE ds

\* float(value) for a string of characters: [sign] digits [. digits], at
\* least one digit; anything else raises ValueError.
float(s) ==
    LET signed == s # <<>> /\ s[1] \in {"-", "+"}
        body == IF signed THEN Tail(s) ELSE s
        dots == {i \in 1..Len(body) : body[i] = "."}
        wellformed == /\ \A i \in 1..Len(body) : body[i] \in Digits \cup {"."}
                      /\ \E i \in 1..Len(body) : body[i] \in Digits
                      /\ Cardinality(dots) <= 1
        dot == IF dots = {} THEN Len(body) + 1 ELSE CHOOSE i \in dots : TRUE
        ip == SubSeq(body, 1, dot - 1)
        fp == StripZeros(SubSeq(body, dot + 1, Len(body)))
        mag == DigitsValue(ip \o fp)
    IN IF wellformed
       THEN Ok(PyFloat(IF signed /\ s[1] = "-" THEN 0 - mag ELSE mag, Len(fp)))
       ELSE Raise("ValueError")

\* Faulty variant: no float is taken for a whole number.
is_integer_never(f) == FALSE

is_integer(f) == f.scale = 0
int(f) == PyInt(f.num)

LowerChar(c) ==
    CASE c = "T" -> "t" [] c = "R" -> "r" [] c = "U" -> "u" [] c = "E" -> "e"
      [] c = "F" -> "f" [] c = "A" -> "a" [] c = "L" -> "l" [] c = "S" -> "s"
      [] c = "Y" -> "y" [] c = "N" -> "n" [] c = "O" -> "o" [] c = "Q" -> "q"
      [] c = "I" -> "i" [] c = "C" -> "c" [] c = "X" -> "x" [] OTHER -> c
\* Faulty variant: the comparison is case-sensitive.
lower_asIs(s) == s

lower(s) == [i \in 1..Len(s) |-> LowerChar(s[i])]

\* One entry of the loop: the converted value, or no entry (`continue`).
convert_value(param) ==
    IF param.type = "number"
    THEN LET f == float(param.value)
         IN IF ~f.ok THEN NoneOpt
            ELSE IF is_integer(f.v) THEN Some(int(f.v)) ELSE Some(f.v)
    ELSE IF param.type = "boolean"
    THEN IF lower(param.value) \in {<<"t", "r", "u", "e">>, <<"y", "e", "s">>, <<"1">>}
         THEN Some(PyBool(TRUE))
         ELSE IF lower(param.value) \in {<<"f", "a", "l", "s", "e">>, <<"n", "o">>, <<"0">>}
         THEN Some(PyBool(FALSE))
         ELSE Some(PyStr(param.value))
    ELSE Some(PyStr(param.value))

RECURSIVE convert_from(_, _)
convert_from(parameters, param_dict) ==
    IF parameters = <<>> THEN param_dict
    ELSE LET v == convert_value(Head(parameters))
         IN convert_from(Tail(parameters),
                         IF v = NoneOpt THEN param_dict
                         ELSE Put(param_dict, Head(parameters).name, v[1]))

convert_parameters(parameters) == convert_from(parameters, EmptyDict)

----------------------------------------------------------------------------
(* The registered callables (the tools of the tests) and the executor *)

\* What calling a registered callable with keyword arguments does.
CallFunction(callable, kwargs) ==
    LET accepted == IF callable = "type_error_function" THEN {"x"} ELSE {}
        required == accepted
    IN IF ~(DOMAIN kwargs \subseteq accepted /\ required \subseteq DOMAIN kwargs)
       THEN Raise("TypeError")
       ELSE CASE callable = "sample_function" ->
                     Ok(PyDict(<< <<"status", PyStr(<<"success">>)>> >>))
              [] callable = "sample_function (redefined)" ->
                     Ok(PyDict(<< <<"status", PyStr(<<"replaced">>)>> >>))
              [] callable = "type_error_function" -> Ok(kwargs["x"])
              [] callable = "error_function" -> Raise("ValueError")
              [] callable = "return_set" -> Ok(PySet)
              [] callable = "return_zero" -> Ok(PyInt(0))
              [] callable = "return_false" -> Ok(PyBool(FALSE))
              [] callable = "return_empty_string" -> Ok(PyStr(<<>>))
              [] callable = "return_empty_list" -> Ok(PyList(<<>>))
              [] callable = "return_empty_dict" -> Ok(PyDict(<<>>))
              [] callable = "return_number" -> Ok(PyInt(42))
              [] callable = "return_list" -> Ok(PyList(<<PyInt(1), PyInt(2), PyInt(3)>>))
              [] OTHER -> Ok(PyNone)

\* Faulty variant: a failure is reported as an error value instead of None.
execute_function_reportsError(function_map, function_name, params) ==
    LET failure == PyDict(<< <<"error", PyStr(<<"failed">>)>> >>)
    IN IF function_name \notin DOMAIN function_map THEN failure
       ELSE LET func == function_map[function_name]
                r == IF params # EmptyDict THEN CallFunction(func, params)
                     ELSE CallFunction(func, EmptyDict)
            IN IF r.ok THEN r.v ELSE failure

\* Faulty variant: the callable is always called without arguments.
execute_function_dropsArguments(function_map, function_name, params) ==
    IF function_name \notin DOMAIN function_map THEN PyNone
    ELSE LET r == CallFunction(function_map[function_name], EmptyDict)
         IN IF r.ok THEN r.v ELSE PyNone

\* Client._execute_function: None (PyNone) on a lookup miss, a TypeError or
\* any other exception, the callable's return value otherwise.
execute_function(function_map, function_name, params) ==
    IF function_name \notin DOMAIN function_map THEN PyNone
    ELSE LET func == function_map[function_name]
             r == IF params # EmptyDict THEN CallFunction(func, params)
                  ELSE CallFunction(func, EmptyDict)
         IN IF r.ok THEN r.v ELSE PyNone

----------------------------------------------------------------------------
(* plugins/: the hooks of the plugin classes *)

TestAgentPlugin == [cls |-> "TestAgentPlugin"]
\* guardrail_version is optional: NoneOpt or Some(version)
GuardrailPlugin(id, version) ==
    [cls |-> "GuardrailPlugin", guardrail_id |-> id, guardrail_version |-> version]
\* description is optional (NoneOpt or Some(text)); retrieval_config is a
\* dict, empty when not given
KnowledgeBasePlugin(knowledge_base_id, description, retrieval_config) ==
    [cls |-> "KnowledgeBasePlugin", knowledge_base_id |-> knowledge_base_id,
     description |-> description, retrieval_config |-> retrieval_config]
\* KnowledgeBasePlugin.pre_invoke, lines 17-25: the entry the plugin adds
kb_config(plugin) ==
    LET base == [knowledgeBaseId |-> plugin.knowledge_base_id]
        described == IF plugin.description # NoneOpt /\ plugin.description[1] # <<>>
                     THEN Put(base, "description", plugin.description[1]) ELSE base
    IN IF plugin.retrieval_config # EmptyDict
       THEN Put(described, "retrievalConfiguration", plugin.retrieval_config)
       ELSE described
\* A caller's plugin one of whose hooks raises.
FaultyPlugin(hook) == [cls |-> "FaultyPlugin", hook |-> hook]
\* A caller's plugin whose post_process hook appends a footer to the text.
FooterPlugin == [cls |-> "FooterPlugin"]
\* A caller's plugin whose pre_invoke and post_invoke hooks append the
\* plugin's name to a list carried by the value they pass on.
StampPlugin(name) == [cls |-> "StampPlugin", name |-> name]
Stamped(d, name) == Put(d, "stamps", Get(d, "stamps", <<>>) \o <<name>>)

pre_invoke(plugin, params) ==
    CASE plugin.cls = "TestAgentPlugin" -> Ok(Put(params, "agent_plugin", TRUE))
      [] plugin.cls = "GuardrailPlugin" ->
            IF "guardrailConfiguration" \notin DOMAIN params
            THEN Ok(Put(params, "guardrailConfiguration",
                        IF plugin.guardrail_version # NoneOpt
                        THEN [guardrailIdentifier |-> plugin.guardrail_id,
                              guardrailVersion |-> plugin.guardrail_version[1]]
                        ELSE [guardrailIdentifier |-> plugin.guardrail_id]))
            ELSE Ok(params)
      [] plugin.cls = "FaultyPlugin" /\ plugin.hook = "pre_invoke" -> Raise("pre_invoke failed")
      [] plugin.cls = "StampPlugin" -> Ok(Stamped(params, plugin.name))
      [] plugin.cls = "KnowledgeBasePlugin" ->
            Ok(Put(params, "knowledgeBases",
                   Append(Get(params, "knowledgeBases", <<>>), kb_config(plugin))))
      [] OTHER -> Ok(params)

post_invoke(plugin, response) ==
    CASE plugin.cls = "TestAgentPlugin" ->
            IF "agent_post_invoke" \notin DOMAIN response
            THEN Ok(Put(response, "agent_post_invoke", TRUE))
            ELSE Ok(response)
      [] plugin.cls = "FaultyPlugin" /\ plugin.hook = "post_invoke" -> Raise("post_invoke failed")
      [] plugin.cls = "StampPlugin" -> Ok(Stamped(response, plugin.name))
      [] OTHER -> Ok(response)

post_process(plugin, result) ==
    CASE plugin.cls = "TestAgentPlugin" ->
            IF "agent_post_process" \notin DOMAIN result
            THEN Ok(Put(result, "agent_post_process", TRUE))
            ELSE Ok(result)
      [] plugin.cls = "FaultyPlugin" /\ plugin.hook = "post_process" -> Raise("post_process failed")
      [] plugin.cls = "FooterPlugin" ->
            Ok(Put(result, "response", result["response"] \o <<"[footer]">>))
      [] OTHER -> Ok(result)

\* Faulty variant: the hooks run in reverse registration order.
RECURSIVE ApplyPreInvoke_reversed(_, _)
ApplyPreInvoke_reversed(plugins, params) ==
    IF plugins = <<>> THEN Ok(params)
    ELSE LET r == pre_invoke(plugins[Len(plugins)], params)
         IN IF r.ok THEN ApplyPreInvoke_reversed(SubSeq(plugins, 1, Len(plugins) - 1), r.v)
            ELSE r

\* `for plugin in agent.plugins: x = plugin.hook(x)`, stopping at a raise.
RECURSIVE ApplyPreInvoke(_, _)
ApplyPreInvoke(plugins, params) ==
    IF plugins = <<>> THEN Ok(params)
    ELSE LET r == pre_invoke(Head(plugins), params)
         IN IF r.ok THEN ApplyPreInvoke(Tail(plugins), r.v) ELSE r

\* The params as the pre_invoke loop left them: after the last hook, or
\* after the last hook that returned when one raised.
RECURSIVE PreInvokeReached(_, _)
PreInvokeReached(plugins, params) ==
    IF plugins = <<>> THEN params
    ELSE LET r == pre_invoke(Head(plugins), params)
         IN IF r.ok THEN PreInvokeReached(Tail(plugins), r.v) ELSE params

\* params.update(agent.advanced_config) copies references: the list under
\* "knowledgeBases" in params is the caller's list object, so what
\* KnowledgeBasePlugin.pre_invoke appends to it shows in advanced_config
Aliased(advanced_config, reached) ==
    IF "knowledgeBases" \in DOMAIN advanced_config
    THEN Put(advanced_config, "knowledgeBases", reached["knowledgeBases"])
    ELSE advanced_config

\* Faulty variant: the hooks run in reverse registration order.
RECURSIVE ApplyPostInvoke_reversed(_, _)
ApplyPostInvoke_reversed(plugins, response) ==
    IF plugins = <<>> THEN Ok(response)
    ELSE LET r == post_invoke(plugins[Len(plugins)], response)
         IN IF r.ok THEN ApplyPostInvoke_reversed(SubSeq(plugins, 1, Len(plugins) - 1), r.v)
            ELSE r

RECURSIVE ApplyPostInvoke(_, _)
ApplyPostInvoke(plugins, response) ==
    IF plugins = <<>> THEN Ok(response)
    ELSE LET r == post_invoke(Head(plugins), response)
         IN IF r.ok THEN ApplyPostInvoke(Tail(plugins), r.v) ELSE r

RECURSIVE ApplyPostProcess(_, _)
ApplyPostProcess(plugins, result) ==
    IF plugins = <<>> THEN Ok(result)
    ELSE LET r == post_process(Head(plugins), result)
         IN IF r.ok THEN ApplyPostProcess(Tail(plugins), r.v) ELSE r

----------------------------------------------------------------------------
(* Client._build_action_groups *)

\* models/agent.py Agent._create_function: a Function record
Function(name, callable, action_group) ==
    [name |-> name, description |-> <<"Execute the ", name, " function">>,
     function |-> callable, action_group |-> action_group]

\* utils/parameter_extraction.py, for the registered callables
extract_parameter_info(callable) ==
    IF callable = "type_error_function"
    THEN Put(EmptyDict, "x", [description |-> <<"The ", "x", " parameter">>,
                              required |-> TRUE, type |-> "string"])
    ELSE EmptyDict

function_def(func) ==
    LET params == extract_parameter_info(func.function)
        base == [name |-> func.name, description |-> func.description,
                 requireConfirmation |-> "DISABLED"]
    IN IF params # EmptyDict THEN Put(base, "parameters", params) ELSE base

\* Faulty variant: every tool is put in the default group.
group_name_of_defaultOnly(func) == "DefaultActions"

group_name_of(func) ==
    IF func.action_group # NoneOpt THEN func.action_group[1] ELSE "DefaultActions"

\* group names in order of first appearance (the insertion order of
\* action_group_map)
RECURSIVE group_names(_, _)
group_names(functions, seen) ==
    IF functions = <<>> THEN seen
    ELSE LET g == group_name_of(Head(functions))
         IN group_names(Tail(functions),
                        IF \E i \in 1..Len(seen) : seen[i] = g THEN seen ELSE Append(seen, g))

\* group_name.replace('Actions', '')
StripActions(group_name) ==
    IF group_name = "DefaultActions" THEN "Default" ELSE group_name

FunctionsOfGroup(functions, g) ==
    SelectSeq(functions, LAMBDA f : group_name_of(f) = g)

action_group_of(functions, g) ==
    [actionGroupName |-> g,
     description |-> <<"Actions related to ", StripActions(g)>>,
     actionGroupExecutor |-> [customControl |-> "RETURN_CONTROL"],
     functionSchema |->
        [functions |-> [i \in 1..Len(FunctionsOfGroup(functions, g)) |->
                            function_def(FunctionsOfGroup(functions, g)[i])]]]

explicit_action_group(ag) ==
    [actionGroupName |-> ag.name,
     description |-> ag.description,
     actionGroupExecutor |-> [customControl |-> "RETURN_CONTROL"],
     functionSchema |->
        [functions |-> [i \in 1..Len(ag.functions) |-> function_def(ag.functions[i])]]]

CodeInterpreterAction ==
    [actionGroupName |-> "CodeInterpreterAction",
     parentActionGroupSignature |-> "AMAZON.CodeInterpreter"]

build_action_groups(agent) ==
    LET names == group_names(agent.functions, <<>>)
        groups == IF agent.action_groups # <<>>
                  THEN [i \in 1..Len(agent.action_groups) |->
                            explicit_action_group(agent.action_groups[i])]
                  ELSE [i \in 1..Len(names) |-> action_group_of(agent.functions, names[i])]
    IN IF agent.enable_code_interpreter THEN Append(groups, CodeInterpreterAction) ELSE groups

\* {func.name: func.function for func in agent.functions}: the last wins
RECURSIVE build_function_map(_, _)
build_function_map(functions, m) ==
    IF functions = <<>> THEN m
    ELSE build_function_map(Tail(functions),
                            Put(m, Head(functions).name, Head(functions).function))

----------------------------------------------------------------------------
(* The remote endpoint's responses: event sequences *)

\* bytes: utf-8 encoded text, or a byte string that is not valid utf-8
Bytes(text) == [valid |-> TRUE, text |-> text]
BadBytes == [valid |-> FALSE, text |-> <<>>]
decode(b) == IF b.valid THEN Ok(b.text) ELSE Raise("UnicodeDecodeError")

Chunk(text) == [chunk |-> [bytes |-> Bytes(text)]]
BadChunk == [chunk |-> [bytes |-> BadBytes]]
FilesEvent(files) == [files |-> [files |-> files]]
TraceEvent == [trace |-> [trace |-> "orchestrationTrace"]]
\* A file record; its name tells the remote call n that produced it.
FileData(name, n) == [name |-> <<name, n>>, bytes |-> <<"bytes of ", name>>, type |-> "text/csv"]

Param(name, value, type) == [name |-> name, value |-> value, type |-> type]
FunctionInvocationInput(action_group, function, parameters) ==
    [functionInvocationInput |->
        [actionGroup |-> action_group, function |-> function, parameters |-> parameters]]
ReturnControl(id, inputs) ==
    [returnControl |-> [invocationId |-> id, invocationInputs |-> inputs]]

\* Event sequences without a tool-call request.
Prefixes(n) ==
    { <<>>,
      <<Chunk(<<"a">>)>>,
      <<Chunk(<<"a">>), Chunk(<<"b">>)>>,
      <<FilesEvent(<<FileData("f1", n), FileData("f2", n)>>), TraceEvent, Chunk(<<"b">>),
        FilesEvent(<<FileData("f3", n)>>)>> }

SampleCall == <<FunctionInvocationInput("DefaultActions", "sample_function", <<>>)>>
MissingCall == <<FunctionInvocationInput("DefaultActions", "non_existent_function", <<>>)>>

\* What a tool-call request may ask for: invocationInputs lists.
Targets ==
    { SampleCall,
      <<FunctionInvocationInput("Utils", "type_error_function",
                                <<Param("x", <<"h", "i">>, "string")>>)>>,
      <<FunctionInvocationInput("Utils", "type_error_function",
                                <<Param("x", <<"0">>, "number")>>)>>,
      <<FunctionInvocationInput("Utils", "type_error_function",
                                <<Param("x", <<"n", "a", "n", "a">>, "number")>>)>>,
      <<FunctionInvocationInput("Utils", "type_error_function", <<>>)>>,
      <<FunctionInvocationInput("DefaultActions", "sample_function",
                                <<Param("x", <<"T", "r", "u", "e">>, "boolean")>>)>>,
      <<FunctionInvocationInput("DefaultActions", "error_function", <<>>)>>,
      <<FunctionInvocationInput("DefaultActions", "return_none", <<>>)>>,
      <<FunctionInvocationInput("DefaultActions", "return_set", <<>>)>>,
      MissingCall,
      <<>> }

\* The endpoint's invocation ids name the remote call n and the event.
InvocationId(n, which) == <<"inv", n, which>>

\* Events that follow a tool-call request in the same response.
Trailing(n) ==
    <<Chunk(<<"c">>), FilesEvent(<<FileData("f5", n)>>),
      ReturnControl(InvocationId(n, "second"),
                    <<FunctionInvocationInput("DefaultActions", "error_function", <<>>)>>)>>

\* The event sequences the endpoint may answer remote call n with: no
\* request, an undecodable chunk, any prefix followed by a request for
\* sample_function or for an unregistered tool, text followed by any
\* request, and requests followed by further events.
Completions(n) ==
    Prefixes(n)
    \cup { <<BadChunk>> }
    \cup { p \o <<ReturnControl(InvocationId(n, "first"), t)>> :
              p \in Prefixes(n), t \in {SampleCall, MissingCall} }
    \cup { <<Chunk(<<"a">>), ReturnControl(InvocationId(n, "first"), t)>> :
              t \in Targets }
    \cup { <<Chunk(<<"a">>), ReturnControl(InvocationId(n, "first"), t)>> \o Trailing(n) :
              t \in {SampleCall, MissingCall} }

\* OutputFile.from_response
from_response(file_data) ==
    [name |-> IF "name" \in DOMAIN file_data THEN file_data["name"] ELSE "",
     content |-> IF "bytes" \in DOMAIN file_data THEN file_data["bytes"] ELSE <<>>,
     type |-> IF "type" \in DOMAIN file_data THEN file_data["type"] ELSE ""]

\* Faulty variant of the scan: it reads on after a tool-call request, so
\* that later events count and the last request wins.
RECURSIVE scan_pastRequest(_, _)
scan_pastRequest(events, st) ==
    IF events = <<>> THEN Ok(st)
    ELSE LET event == Head(events)
         IN IF "returnControl" \in DOMAIN event
            THEN scan_pastRequest(Tail(events),
                     [st EXCEPT !.return_control = Some(event["returnControl"])])
            ELSE IF "chunk" \in DOMAIN event /\ "bytes" \in DOMAIN event["chunk"]
            THEN LET text == decode(event["chunk"]["bytes"])
                 IN IF text.ok
                    THEN scan_pastRequest(Tail(events),
                             [st EXCEPT !.response_text = @ \o text.v])
                    ELSE text
            ELSE IF "files" \in DOMAIN event
            THEN LET fs == IF "files" \in DOMAIN event["files"]
                           THEN event["files"]["files"] ELSE <<>>
                 IN scan_pastRequest(Tail(events),
                         [st EXCEPT !.output_files =
                              @ \o [i \in 1..Len(fs) |-> from_response(fs[i])]])
            ELSE scan_pastRequest(Tail(events), st)

\* Faulty variant of the scan: a chunk replaces the text read so far.
RECURSIVE scan_overwrites(_, _)
scan_overwrites(events, st) ==
    IF events = <<>> THEN Ok(st)
    ELSE LET event == Head(events)
         IN IF "returnControl" \in DOMAIN event
            THEN Ok([st EXCEPT !.return_control = Some(event["returnControl"])])
            ELSE IF "chunk" \in DOMAIN event /\ "bytes" \in DOMAIN event["chunk"]
            THEN LET text == decode(event["chunk"]["bytes"])
                 IN IF text.ok
                    THEN scan_overwrites(Tail(events), [st EXCEPT !.response_text = text.v])
                    ELSE text
            ELSE IF "files" \in DOMAIN event
            THEN LET fs == IF "files" \in DOMAIN event["files"]
                           THEN event["files"]["files"] ELSE <<>>
                 IN scan_overwrites(Tail(events),
                         [st EXCEPT !.output_files =
                              @ \o [i \in 1..Len(fs) |-> from_response(fs[i])]])
            ELSE scan_overwrites(Tail(events), st)

\* The scan of response["completion"]: stops at the first returnControl.
RECURSIVE scan(_, _)
scan(events, st) ==
    IF events = <<>> THEN Ok(st)
    ELSE LET event == Head(events)
         IN IF "returnControl" \in DOMAIN event
            THEN Ok([st EXCEPT !.return_control = Some(event["returnControl"])])
            ELSE IF "chunk" \in DOMAIN event /\ "bytes" \in DOMAIN event["chunk"]
            THEN LET text == decode(event["chunk"]["bytes"])
                 IN IF text.ok
                    THEN scan(Tail(events), [st EXCEPT !.response_text = @ \o text.v])
                    ELSE text
            ELSE IF "files" \in DOMAIN event
            THEN LET fs == IF "files" \in DOMAIN event["files"]
                           THEN event["files"]["files"] ELSE <<>>
                 IN scan(Tail(events),
                         [st EXCEPT !.output_files =
                              @ \o [i \in 1..Len(fs) |-> from_response(fs[i])]])
            ELSE scan(Tail(events), st)

ScanStart == [return_control |-> NoneOpt, response_text |-> <<>>, output_files |-> <<>>]

----------------------------------------------------------------------------
(* State *)

VARIABLES
    max_tool_calls,         \* Client.max_tool_calls
    agent,                  \* the Agent object
    pc,                     \* where the caller / the innermost frame stands
    session_id,             \* run's session id, passed to every frame
    action_groups,          \* the schema built by run
    function_map,           \* name -> callable, built by run
    input_text,             \* arguments of the innermost _invoke_agent frame
    invocation_id,
    return_control_result,
    accumulated_text,
    tool_call_count,
    params,                 \* locals of the innermost frame
    response,
    output_files,
    return_control,
    stack,                  \* output_files of the suspended frames, innermost first
    retval,                 \* the dict a finished frame returns to its caller
    calls,                  \* the requests invoke_inline_agent received, in order
    responses,              \* what it answered: Ok(response) or Raise(e)
    execs,                  \* the tools executed, in order
    result,                 \* what run returned
    raised,                 \* the exception run raised
    parameters,             \* convert_parameters called on its own: the argument
    param_dict              \* and the dict it returned

config == <<max_tool_calls, agent, parameters, param_dict>>
runvars == <<session_id, action_groups, function_map>>
framevars == <<input_text, invocation_id, return_control_result, accumulated_text,
               tool_call_count, params, response, output_files, return_control>>
history == <<calls, responses, execs>>
vars == <<config, pc, runvars, framevars, stack, retval, history, result, raised>>

CeilingNotice ==
    <<"\n", "\n", "Reached maximum number of tool calls. Some tasks may be incomplete.">>

\* The callables registered with the agent of the model.
AgentFunctions ==
    << Function("sample_function", "sample_function", NoneOpt),
       Function("type_error_function", "type_error_function", Some("Utils")),
       Function("error_function", "error_function", NoneOpt),
       Function("return_none", "return_none", NoneOpt),
       Function("return_set", "return_set", NoneOpt) >>

PluginLists ==
    { <<>>,
      <<TestAgentPlugin, GuardrailPlugin("g1", NoneOpt), GuardrailPlugin("g2", Some("1"))>>,
      <<FaultyPlugin("pre_invoke")>>,
      <<TestAgentPlugin, FaultyPlugin("post_invoke")>>,
      <<FaultyPlugin("post_process"), TestAgentPlugin>>,
      <<FooterPlugin, TestAgentPlugin>> }

Agent(plugins) ==
    [name |-> "TestAgent",
     model |-> "us.anthropic.claude-3-5-sonnet-20241022-v2:0",
     instructions |-> "You are a test agent",
     functions |-> AgentFunctions,
     action_groups |-> <<>>,
     enable_code_interpreter |-> FALSE,
     files |-> <<>>,
     plugins |-> plugins,
     advanced_config |-> EmptyDict]

Idle ==
    /\ pc = "idle"
    /\ session_id = NoneOpt /\ action_groups = <<>> /\ function_map = EmptyDict
    /\ input_text = NoneOpt /\ invocation_id = NoneOpt /\ return_control_result = NoneOpt
    /\ accumulated_text = <<>> /\ tool_call_count = 0
    /\ params = EmptyDict /\ response = EmptyDict /\ output_files = <<>>
    /\ return_control = NoneOpt
    /\ stack = <<>> /\ retval = EmptyDict
    /\ calls = <<>> /\ responses = <<>> /\ execs = <<>>
    /\ result = NoneOpt /\ raised = NoneOpt

Init ==
    /\ max_tool_calls \in -1..MaxCeiling
    /\ agent \in {Agent(p) : p \in PluginLists}
    /\ parameters = <<>> /\ param_dict = NoneOpt
    /\ Idle

----------------------------------------------------------------------------
(* Client.run *)

UserMessage(content) == [role |-> "user", content |-> content]
AssistantMessage(content) == [role |-> "assistant", content |-> content]

\* The arguments run is called with: each optional.
RunArgs ==
    { [message |-> NoneOpt, messages |-> NoneOpt, session_id |-> NoneOpt],
      [message |-> Some(<<"Hello">>), messages |-> Some(<<UserMessage(<<"Hi">>)>>),
       session_id |-> NoneOpt],
      [message |-> NoneOpt, messages |-> Some(<<>>), session_id |-> NoneOpt],
      [message |-> NoneOpt,
       messages |-> Some(<<UserMessage(<<"Hi">>), AssistantMessage(<<"Yes?">>)>>),
       session_id |-> Some("test-session")],
      [message |-> Some(<<"Hello">>), messages |-> NoneOpt, session_id |-> NoneOpt],
      [message |-> NoneOpt,
       messages |-> Some(<<AssistantMessage(<<"Yes?">>), UserMessage(<<"Again">>)>>),
       session_id |-> Some("test-session")] }

\* str(uuid.uuid4())
uuid4 == "generated-uuid4"

RunRaises(e) ==
    /\ raised' = Some(e)
    /\ pc' = "raised"
    /\ UNCHANGED <<config, runvars, framevars, stack, retval, history, result>>

\* Faulty variant: the role of the last message is not examined.
Run_skipsRoleCheck(message, messages, sid) ==
    /\ pc = "idle"
    /\ IF message = NoneOpt /\ messages = NoneOpt
       THEN RunRaises("ValueError: Either 'message' or 'messages' must be provided")
       ELSE IF message # NoneOpt /\ messages # NoneOpt
       THEN RunRaises("ValueError: Only one of 'message' or 'messages' should be provided, not both")
       ELSE IF message = NoneOpt /\ messages[1] = <<>>
       THEN RunRaises("IndexError: list index out of range")
       ELSE LET last_message == IF message # NoneOpt THEN UserMessage(message[1])
                                ELSE messages[1][Len(messages[1])]
            IN /\ session_id' = (IF sid = NoneOpt THEN Some(uuid4) ELSE sid)
               /\ action_groups' = build_action_groups(agent)
               /\ function_map' = build_function_map(agent.functions, EmptyDict)
               /\ input_text' = Some(last_message.content)
               /\ tool_call_count' = 0
               /\ pc' = "enter"
               /\ UNCHANGED <<config, invocation_id, return_control_result,
                              accumulated_text, params, response, output_files,
                              return_control, stack, retval, history, result, raised>>

\* Client.run up to its call of _invoke_agent (lines 431-470)
Run(message, messages, sid) ==
    /\ pc = "idle"
    /\ IF message = NoneOpt /\ messages = NoneOpt
       THEN RunRaises("ValueError: Either 'message' or 'messages' must be provided")
       ELSE IF message # NoneOpt /\ messages # NoneOpt
       THEN RunRaises("ValueError: Only one of 'message' or 'messages' should be provided, not both")
       ELSE IF message = NoneOpt /\ messages[1] = <<>>
       THEN RunRaises("IndexError: list index out of range")
       ELSE LET last_message == IF message # NoneOpt THEN UserMessage(message[1])
                                ELSE messages[1][Len(messages[1])]
            IN IF last_message.role # "user"
               THEN RunRaises("ValueError: The last message must be from the user")
               ELSE /\ session_id' = (IF sid = NoneOpt THEN Some(uuid4) ELSE sid)
                    /\ action_groups' = build_action_groups(agent)
                    /\ function_map' = build_function_map(agent.functions, EmptyDict)
                    /\ input_text' = Some(last_message.content)
                    /\ tool_call_count' = 0
                    /\ pc' = "enter"
                    /\ UNCHANGED <<config, invocation_id, return_control_result,
                                   accumulated_text, params, response, output_files,
                                   return_control, stack, retval, history, result, raised>>

----------------------------------------------------------------------------
(* Client._invoke_agent *)

\* The largest number of remote calls of one run the model follows; the
\* ceiling keeps every run of the code below it.
MaxCalls == MaxCeiling + 1

\* Faulty variant of the ceiling check: one turn too early.
exceeds_ceiling_early(count, ceiling) == count >= ceiling

\* Faulty variant of the ceiling check: one turn too late.
exceeds_ceiling_late(count, ceiling) == count > ceiling + 1

\* line 218: the ceiling check, after the increment
exceeds_ceiling(count, ceiling) == count > ceiling

\* Faulty variant: the error message is appended to the text so far.
except_clause_keepsText(e) ==
    Ok([response |-> accumulated_text \o <<"An error occurred: ", e>>, files |-> <<>>])

\* Faulty variant: only the endpoint's ClientError is caught.
except_clause_clientErrorOnly(e) ==
    IF e = "ClientError"
    THEN Ok([response |-> <<"An error occurred: ", e>>, files |-> <<>>])
    ELSE Raise(e)

\* lines 409-416: `except Exception` turns any exception raised inside the
\* try block into the frame's return value
except_clause(e) == Ok([response |-> <<"An error occurred: ", e>>, files |-> <<>>])

\* Faulty variant: an exception restarts the turn instead of ending it.
Excepted_restartsTurn(e) == [pc |-> "prepare", retval |-> retval, raised |-> NoneOpt]

\* Where an exception raised inside the try block leaves the frame: it
\* returns the except clause's value, or the exception leaves _invoke_agent
\* (and, through every calling frame, run).
Excepted(e) ==
    LET handled == except_clause(e)
    IN IF handled.ok
       THEN [pc |-> "return", retval |-> handled.v, raised |-> NoneOpt]
       ELSE [pc |-> "raised", retval |-> retval, raised |-> Some(handled.e)]

Continue(next_pc) == [pc |-> next_pc, retval |-> retval, raised |-> NoneOpt]
Returns(value) == [pc |-> "return", retval |-> value, raised |-> NoneOpt]

Goes(outcome) ==
    /\ pc' = outcome.pc
    /\ retval' = outcome.retval
    /\ raised' = outcome.raised

\* A hook chain's result as the frame's return value
Returned(final) == IF final.ok THEN Returns(final.v) ELSE Excepted(final.e)

\* Faulty variant: the notice replaces the accumulated text.
ceiling_result_noText(text) == [response |-> CeilingNotice, files |-> <<>>]

\* lines 219-222: what a frame entered above the ceiling returns
ceiling_result(text) == [response |-> text \o CeilingNotice, files |-> <<>>]

\* lines 217-222: count the turn, stop at the ceiling
Enter ==
    /\ pc = "enter"
    /\ tool_call_count' = tool_call_count + 1
    /\ IF exceeds_ceiling(tool_call_count + 1, max_tool_calls)
       THEN Goes(Returns(ceiling_result(accumulated_text)))
       ELSE Goes(Continue("prepare"))
    /\ UNCHANGED <<config, runvars, input_text, invocation_id, return_control_result,
                   accumulated_text, params, response, output_files, return_control,
                   stack, history, result>>

\* params.update(d)
Update(d, e) ==
    [k \in (DOMAIN d) \cup (DOMAIN e) |-> IF k \in DOMAIN e THEN e[k] ELSE d[k]]

\* InputFile.to_dict
to_dict(f) ==
    [name |-> f.name,
     source |-> [byteContent |-> [data |-> f.content, mediaType |-> f.media_type],
                 sourceType |-> "BYTE_CONTENT"],
     useCase |-> f.use_case]

FileDicts == [i \in 1..Len(agent.files) |-> to_dict(agent.files[i])]

\* The value of an optional argument; Python's None when it was not passed.
Unwrap(opt) == IF opt = NoneOpt THEN "None" ELSE opt[1]

\* Faulty variant: a resumption request is sent under a session id of its own.
BaseParams_freshSession ==
    [sessionId |-> IF input_text = NoneOpt THEN "another-generated-uuid4" ELSE session_id[1],
     actionGroups |-> action_groups,
     instruction |-> agent.instructions,
     foundationModel |-> agent.model,
     enableTrace |-> FALSE]

\* lines 229-239: the fields every request carries (agent_traces is off)
BaseParams ==
    LET base == [sessionId |-> session_id[1],
                 actionGroups |-> action_groups,
                 instruction |-> agent.instructions,
                 foundationModel |-> agent.model,
                 enableTrace |-> FALSE]
    IN IF agent.advanced_config # EmptyDict
       THEN Update(base, agent.advanced_config) ELSE base

\* Faulty variant: a resumption request still carries the user text field.
WithTurnInput_keepsText(request, text, inv_id, rc_result) ==
    LET inline_session_state ==
            [invocationId |-> Unwrap(inv_id),
             returnControlInvocationResults |-> <<Unwrap(rc_result)>>]
    IN IF text # NoneOpt
       THEN Put(request, "inputText", text[1])
       ELSE Put(Put(request, "inputText", <<>>), "inlineSessionState", inline_session_state)

\* Faulty variant: only the first request carries the attached files.
WithTurnInput_filesOnce(request, text, inv_id, rc_result) ==
    IF text # NoneOpt
    THEN LET first == Put(request, "inputText", text[1])
         IN IF agent.files # <<>>
            THEN Put(first, "inlineSessionState", [files |-> FileDicts])
            ELSE first
    ELSE Put(request, "inlineSessionState",
             [invocationId |-> Unwrap(inv_id),
              returnControlInvocationResults |-> <<Unwrap(rc_result)>>])

\* lines 241-274: the turn input, user text or the prior tool result
WithTurnInput(request, text, inv_id, rc_result) ==
    IF text # NoneOpt
    THEN LET first == Put(request, "inputText", text[1])
         IN IF agent.files # <<>>
            THEN Put(first, "inlineSessionState", [files |-> FileDicts])
            ELSE first
    ELSE LET inline_session_state ==
                 [invocationId |-> Unwrap(inv_id),
                  returnControlInvocationResults |-> <<Unwrap(rc_result)>>]
         IN Put(request, "inlineSessionState",
                IF agent.files # <<>>
                THEN Put(inline_session_state, "files", FileDicts)
                ELSE inline_session_state)

\* lines 227-278: build the request and run the pre_invoke hooks
Prepare ==
    /\ pc = "prepare"
    /\ LET request == WithTurnInput(BaseParams, input_text, invocation_id,
                                    return_control_result)
           hooked == ApplyPreInvoke(agent.plugins, request)
       IN /\ IF hooked.ok
             THEN /\ params' = hooked.v
                  /\ Goes(Continue("call"))
             ELSE /\ Goes(Excepted(hooked.e))
                  /\ UNCHANGED params
          /\ agent' = [agent EXCEPT !.advanced_config =
                           Aliased(@, PreInvokeReached(agent.plugins, request))]
    /\ UNCHANGED <<max_tool_calls, parameters, param_dict, runvars, input_text,
                   invocation_id, return_control_result, accumulated_text,
                   tool_call_count, response, output_files, return_control, stack,
                   history, result>>

\* Faulty variant: a call that raised is issued again.
RemoteCall_retries(r) ==
    /\ pc = "call"
    /\ Len(calls) < MaxCalls
    /\ calls' = Append(calls, params)
    /\ responses' = Append(responses, r)
    /\ IF r.ok
       THEN /\ response' = r.v
            /\ Goes(Continue("process"))
       ELSE /\ Goes(Continue("call"))
            /\ UNCHANGED response
    /\ UNCHANGED <<config, runvars, input_text, invocation_id, return_control_result,
                   accumulated_text, tool_call_count, params, output_files,
                   return_control, stack, execs, result>>

\* line 281: the one blocking call; the endpoint answers or raises
RemoteCall(r) ==
    /\ pc = "call"
    /\ Len(calls) < MaxCalls
    /\ calls' = Append(calls, params)
    /\ responses' = Append(responses, r)
    /\ IF r.ok
       THEN /\ response' = r.v
            /\ Goes(Continue("process"))
       ELSE /\ Goes(Excepted(r.e))
            /\ UNCHANGED response
    /\ UNCHANGED <<config, runvars, input_text, invocation_id, return_control_result,
                   accumulated_text, tool_call_count, params, output_files,
                   return_control, stack, execs, result>>

RemoteAnswers(n) ==
    { Raise("ClientError") } \cup { Ok([completion |-> c]) : c \in Completions(n) }

\* Faulty variant: the separator is added unconditionally.
Accumulate_alwaysSeparates(acc, response_text) == acc \o <<"\n">> \o response_text

\* lines 312-317: newline-join the turn's text onto the accumulator
Accumulate(acc, response_text) ==
    IF response_text # <<>>
    THEN (IF acc # <<>> THEN acc \o <<"\n">> ELSE acc) \o response_text
    ELSE acc

\* lines 283-347: post_invoke hooks, scan, accumulate; a turn without a
\* tool-call request is final, otherwise the request's details are extracted
Process ==
    /\ pc = "process"
    /\ LET hooked == ApplyPostInvoke(agent.plugins, response)
           scanned == scan(hooked.v["completion"], ScanStart)
           text == Accumulate(accumulated_text, scanned.v.response_text)
           final == ApplyPostProcess(agent.plugins,
                        [response |-> text, files |-> scanned.v.output_files])
           rc == scanned.v.return_control[1]
           function_input ==
               Get(rc["invocationInputs"][1], "functionInvocationInput", EmptyDict)
       IN IF ~hooked.ok
          THEN /\ Goes(Excepted(hooked.e))
               /\ UNCHANGED <<response, accumulated_text, output_files, return_control>>
          ELSE IF ~scanned.ok
          THEN /\ Goes(Excepted(scanned.e))
               /\ response' = hooked.v
               /\ UNCHANGED <<accumulated_text, output_files, return_control>>
          ELSE /\ response' = hooked.v
               /\ accumulated_text' = text
               /\ output_files' = scanned.v.output_files
               /\ IF scanned.v.return_control = NoneOpt
                  THEN /\ Goes(Returned(final))
                       /\ UNCHANGED return_control
                  ELSE IF rc["invocationInputs"] = <<>>
                  THEN /\ Goes(Excepted("list index out of range"))
                       /\ UNCHANGED return_control
                  ELSE /\ return_control' =
                            Some([invocationId |-> rc["invocationId"],
                                  function |-> Get(function_input, "function", "None"),
                                  actionGroup |-> Get(function_input, "actionGroup", "None"),
                                  parameters |-> Get(function_input, "parameters", <<>>)])
                       /\ Goes(Continue("execute"))
    /\ UNCHANGED <<config, runvars, input_text, invocation_id, return_control_result,
                   tool_call_count, params, stack, history, result>>

\* Faulty variant: every result is tagged with the default action group.
function_result_untagged(action_group, function_name, body) ==
    [functionResult |->
        [actionGroup |-> "DefaultActions",
         function |-> function_name,
         responseBody |-> ("application/json" :> [body |-> body])]]

\* lines 371-381: the resumption payload
function_result(action_group, function_name, body) ==
    [functionResult |->
        [actionGroup |-> action_group,
         function |-> function_name,
         responseBody |-> ("application/json" :> [body |-> body])]]

\* lines 349-394: convert the arguments, execute the tool; without a usable
\* result the run ends with the text so far, otherwise the result is
\* packaged and _invoke_agent calls itself
Execute ==
    /\ pc = "execute"
    /\ LET rc == return_control[1]
           converted == convert_parameters(rc.parameters)
           tool_result == execute_function(function_map, rc.function, converted)
           final == ApplyPostProcess(agent.plugins,
                        [response |-> accumulated_text, files |-> output_files])
           body == json_dumps(tool_result)
       IN /\ execs' = Append(execs, [function |-> rc.function, params |-> converted,
                                     result |-> tool_result])
          /\ IF ~Truthy(tool_result)
             THEN /\ Goes(Returned(final))
                  /\ UNCHANGED <<input_text, invocation_id, return_control_result,
                                 output_files, stack>>
             ELSE IF ~body.ok
             THEN /\ Goes(Excepted(body.e))
                  /\ UNCHANGED <<input_text, invocation_id, return_control_result,
                                 output_files, stack>>
             ELSE /\ input_text' = NoneOpt
                  /\ invocation_id' = Some(rc.invocationId)
                  /\ return_control_result' =
                         Some(function_result(rc.actionGroup, rc.function, body.v))
                  /\ stack' = <<output_files>> \o stack
                  /\ output_files' = <<>>
                  /\ Goes(Continue("enter"))
    /\ UNCHANGED <<config, runvars, accumulated_text, tool_call_count, params, response,
                   return_control, calls, responses, result>>

\* Faulty variant: the returned files are put before the frame's own.
Return_innerFirst ==
    /\ pc = "return"
    /\ stack # <<>>
    /\ LET all_files == Get(retval, "files", <<>>) \o Head(stack)
           final == ApplyPostProcess(agent.plugins,
                        [response |-> Get(retval, "response", <<>>), files |-> all_files])
       IN Goes(Returned(final))
    /\ stack' = Tail(stack)
    /\ UNCHANGED <<config, runvars, framevars, history, result>>

\* lines 396-407: the caller frame merges its files with the returned ones
\* and runs the post_process hooks
Return ==
    /\ pc = "return"
    /\ stack # <<>>
    /\ LET all_files == Head(stack) \o Get(retval, "files", <<>>)
           final == ApplyPostProcess(agent.plugins,
                        [response |-> Get(retval, "response", <<>>), files |-> all_files])
       IN Goes(Returned(final))
    /\ stack' = Tail(stack)
    /\ UNCHANGED <<config, runvars, framevars, history, result>>

\* Client.run after _invoke_agent returned (lines 472-491)
RunReturn ==
    /\ pc = "return"
    /\ stack = <<>>
    /\ result' = Some(IF Get(retval, "files", <<>>) # <<>>
                      THEN Put(retval, "save_all_files", "save_all_files")
                      ELSE retval)
    /\ pc' = "done"
    /\ UNCHANGED <<config, runvars, framevars, stack, retval, history, raised>>

\* The caller is free to call run again.
Reset ==
    /\ pc \in {"done", "raised"}
    /\ pc' = "idle"
    /\ session_id' = NoneOpt /\ action_groups' = <<>> /\ function_map' = EmptyDict
    /\ input_text' = NoneOpt /\ invocation_id' = NoneOpt
    /\ return_control_result' = NoneOpt
    /\ accumulated_text' = <<>> /\ tool_call_count' = 0
    /\ params' = EmptyDict /\ response' = EmptyDict /\ output_files' = <<>>
    /\ return_control' = NoneOpt
    /\ stack' = <<>> /\ retval' = EmptyDict
    /\ calls' = <<>> /\ responses' = <<>> /\ execs' = <<>>
    /\ result' = NoneOpt /\ raised' = NoneOpt
    /\ UNCHANGED config

DoRun == \E a \in RunArgs : Run(a.message, a.messages, a.session_id)
DoRemoteCall == \E r \in RemoteAnswers(Len(calls) + 1) : RemoteCall(r)

Next ==
    \/ DoRun
    \/ Enter
    \/ Prepare
    \/ DoRemoteCall
    \/ Process
    \/ Execute
    \/ Return
    \/ RunReturn
    \/ Reset

Spec == Init /\ [][Next]_vars

\* Every step of the loop returns: the remote call, the tool, the hooks.
FairSpec == Spec /\ WF_vars(Next)

----------------------------------------------------------------------------
(* The loop run for an agent whose plugins stamp what they are handed *)

StampPluginLists ==
    { <<StampPlugin("p1"), TestAgentPlugin, StampPlugin("p2")>>,
      <<StampPlugin("p1"), FaultyPlugin("post_invoke"), StampPlugin("p2")>>,
      <<StampPlugin("p1"), StampPlugin("p2"), FaultyPlugin("pre_invoke")>> }

OrderInit ==
    /\ max_tool_calls \in -1..MaxCeiling
    /\ agent \in {Agent(p) : p \in StampPluginLists}
    /\ parameters = <<>> /\ param_dict = NoneOpt
    /\ Idle

OrderSpec == OrderInit /\ [][Next]_vars

----------------------------------------------------------------------------
(* The loop run for an agent whose tools return values of every kind *)

\* Tools that return normally a value Python counts as false.
FalsyTools ==
    { "return_none", "return_zero", "return_false", "return_empty_string",
      "return_empty_list", "return_empty_dict" }
ToolNames ==
    FalsyTools \cup { "sample_function", "return_number", "return_list", "error_function" }
ToolList ==
    << "sample_function", "return_none", "return_zero", "return_false",
       "return_empty_string", "return_empty_list", "return_empty_dict",
       "return_number", "return_list", "error_function" >>

ToolsAgent(plugins) ==
    [Agent(plugins) EXCEPT
        !.functions = [i \in 1..Len(ToolList) |-> Function(ToolList[i], ToolList[i], NoneOpt)]]

ToolsInit ==
    /\ max_tool_calls \in 1..MaxCeiling
    /\ agent \in { ToolsAgent(<<>>), ToolsAgent(<<TestAgentPlugin>>) }
    /\ parameters = <<>> /\ param_dict = NoneOpt
    /\ Idle

\* What the endpoint answers: text, or text and a request for one tool.
ToolAnswers(n) ==
    { Raise("ClientError"), Ok([completion |-> <<Chunk(<<"a">>)>>]) }
    \cup { Ok([completion |->
                 <<Chunk(<<"a">>),
                   ReturnControl(InvocationId(n, "first"),
                                 <<FunctionInvocationInput("DefaultActions", f, <<>>)>>)>>]) :
             f \in ToolNames }

DoToolsRemoteCall == \E r \in ToolAnswers(Len(calls) + 1) : RemoteCall(r)

ToolsNext ==
    \/ DoRun
    \/ Enter
    \/ Prepare
    \/ DoToolsRemoteCall
    \/ Process
    \/ Execute
    \/ Return
    \/ RunReturn
    \/ Reset

ToolsSpec == ToolsInit /\ [][ToolsNext]_vars

----------------------------------------------------------------------------
(* Runs of one agent that has knowledge bases *)

\* The most entries followed in the caller's knowledgeBases list.
MaxKnowledgeBases == 3

\* What the caller put under "knowledgeBases" in advanced_config.
CallerKnowledgeBases == << [knowledgeBaseId |-> "kb-0"] >>

KnowledgePluginLists ==
    { <<KnowledgeBasePlugin("kb-1", NoneOpt, EmptyDict)>>,
      <<KnowledgeBasePlugin("kb-1", Some(<<"Company documentation">>), EmptyDict),
        TestAgentPlugin,
        KnowledgeBasePlugin("kb-2", NoneOpt, [numberOfResults |-> 5])>>,
      <<KnowledgeBasePlugin("kb-1", NoneOpt, EmptyDict), FaultyPlugin("pre_invoke")>> }

\* Agents with KnowledgeBasePlugins, with and without knowledge bases of
\* the caller's own in advanced_config.
KnowledgeAgents ==
    { [Agent(p) EXCEPT !.advanced_config = c] :
        p \in KnowledgePluginLists,
        c \in { EmptyDict,
                [customerEncryptionKeyArn |-> "arn:key"],
                [knowledgeBases |-> CallerKnowledgeBases] } }

KnowledgeInit ==
    /\ max_tool_calls \in 1..MaxCeiling
    /\ agent \in KnowledgeAgents
    /\ parameters = <<>> /\ param_dict = NoneOpt
    /\ Idle

\* run is called again while the caller's list is short enough to follow
DoKnowledgeRun ==
    /\ Len(Get(agent.advanced_config, "knowledgeBases", <<>>)) < MaxKnowledgeBases
    /\ DoRun

\* What the endpoint answers: a raise, text, or text and a request.
KnowledgeAnswers(n) ==
    { Raise("ClientError"),
      Ok([completion |-> <<Chunk(<<"a">>)>>]),
      Ok([completion |->
            <<Chunk(<<"a">>), ReturnControl(InvocationId(n, "first"), SampleCall)>>]) }

DoKnowledgeRemoteCall == \E r \in KnowledgeAnswers(Len(calls) + 1) : RemoteCall(r)

KnowledgeNext ==
    \/ DoKnowledgeRun
    \/ Enter
    \/ Prepare
    \/ DoKnowledgeRemoteCall
    \/ Process
    \/ Execute
    \/ Return
    \/ RunReturn
    \/ Reset

KnowledgeSpec == KnowledgeInit /\ [][KnowledgeNext]_vars

----------------------------------------------------------------------------
(* Client.chat: the interactive loop around _invoke_agent *)

\* The largest number of input files attached to the agent.
MaxFiles == 2

\* str.strip(): leading and trailing blanks removed
RECURSIVE lstrip(_)
lstrip(s) == IF s # <<>> /\ Head(s) = " " THEN lstrip(Tail(s)) ELSE s
RECURSIVE rstrip(_)
rstrip(s) ==
    IF s # <<>> /\ s[Len(s)] = " " THEN rstrip(SubSeq(s, 1, Len(s) - 1)) ELSE s
strip(s) == rstrip(lstrip(s))
startswith(s, prefix) ==
    Len(s) >= Len(prefix) /\ SubSeq(s, 1, Len(prefix)) = prefix

\* The files on the user's disk: path -> content and guessed media type.
Disk == ("a.csv" :> [content |-> <<"bytes of ", "a.csv">>, media_type |-> "text/csv"])

InputFile(name, content, media_type, use_case) ==
    [name |-> name, content |-> content, media_type |-> media_type, use_case |-> use_case]

\* Agent.add_file_from_path: open() raises for a path that does not exist
add_file_from_path(file_path) ==
    IF Len(file_path) = 1 /\ file_path[1] \in DOMAIN Disk
    THEN Ok(InputFile(file_path[1], Disk[file_path[1]].content,
                      Disk[file_path[1]].media_type, "CODE_INTERPRETER"))
    ELSE Raise("FileNotFoundError")

\* What the user types at the "You: " prompt.
ChatLines ==
    { <<>>,
      <<" ", " ">>,
      <<" ", "E", "x", "i", "t", " ">>,
      <<"Q", "U", "I", "T">>,
      <<"e", "x", "i", "t", " ", "now">>,
      <<"C", "l", "e", "a", "r", " ", "F", "i", "l", "e", "s">>,
      <<"f", "i", "l", "e", ":", " ", "a.csv">>,
      <<"f", "i", "l", "e", ":", "missing.csv">>,
      <<"F", "i", "l", "e", ":", "a.csv">>,
      <<"Hello">> }

\* What the user types at the "save these files?" prompt.
SaveChoices == { <<"y">>, <<" ", "Y", "E", "S">>, <<"n">>, <<>> }

\* The agents chat is started with: with and without a file attached.
ChatAgents ==
    { [Agent(<<TestAgentPlugin>>) EXCEPT !.files = fs] :
        fs \in { <<>>, <<InputFile("b.txt", <<"bytes of ", "b.txt">>, "text/plain",
                                   "CODE_INTERPRETER")>> } }

ChatInit ==
    /\ max_tool_calls \in 0..MaxCeiling
    /\ agent \in ChatAgents
    /\ parameters = <<>> /\ param_dict = NoneOpt
    /\ Idle

\* lines 501-508: the session id, the schema and the function map are
\* fixed before the first prompt
ChatStart(sid) ==
    /\ pc = "idle"
    /\ session_id' = (IF sid = NoneOpt THEN Some(uuid4) ELSE sid)
    /\ action_groups' = build_action_groups(agent)
    /\ function_map' = build_function_map(agent.functions, EmptyDict)
    /\ pc' = "chat"
    /\ UNCHANGED <<config, framevars, stack, retval, history, result, raised>>

\* Faulty variant: the turn counter is carried over from the last message.
StartMessage_keepsCount(user_input) ==
    /\ input_text' = Some(user_input)
    /\ invocation_id' = NoneOpt /\ return_control_result' = NoneOpt
    /\ accumulated_text' = <<>>
    /\ params' = EmptyDict /\ response' = EmptyDict /\ output_files' = <<>>
    /\ return_control' = NoneOpt
    /\ stack' = <<>> /\ retval' = EmptyDict
    /\ calls' = <<>> /\ responses' = <<>> /\ execs' = <<>>
    /\ pc' = "enter"
    /\ UNCHANGED <<config, runvars, tool_call_count, result, raised>>

\* lines 545-552: _invoke_agent is called for one user message
StartMessage(user_input) ==
    /\ input_text' = Some(user_input)
    /\ invocation_id' = NoneOpt /\ return_control_result' = NoneOpt
    /\ accumulated_text' = <<>> /\ tool_call_count' = 0
    /\ params' = EmptyDict /\ response' = EmptyDict /\ output_files' = <<>>
    /\ return_control' = NoneOpt
    /\ stack' = <<>> /\ retval' = EmptyDict
    /\ calls' = <<>> /\ responses' = <<>> /\ execs' = <<>>
    /\ pc' = "enter"
    /\ UNCHANGED <<config, runvars, result, raised>>

\* lines 519-552: one line read at the prompt
ChatInput(line) ==
    /\ pc = "chat"
    /\ LET user_input == strip(line)
       IN IF lower(user_input) \in { <<"e", "x", "i", "t">>, <<"q", "u", "i", "t">> }
          THEN /\ pc' = "chat_done"
               /\ UNCHANGED <<config, runvars, framevars, stack, retval, history, result,
                              raised>>
          ELSE IF user_input = <<>>
          THEN UNCHANGED vars
          ELSE IF startswith(user_input, <<"f", "i", "l", "e", ":">>)
          THEN LET file == add_file_from_path(strip(SubSeq(user_input, 6, Len(user_input))))
               IN /\ Len(agent.files) < MaxFiles
                  /\ agent' = IF file.ok THEN [agent EXCEPT !.files = Append(@, file.v)]
                              ELSE agent
                  /\ UNCHANGED <<max_tool_calls, parameters, param_dict, pc, runvars,
                                 framevars, stack, retval, history, result, raised>>
          ELSE IF lower(user_input) = <<"c", "l", "e", "a", "r", " ", "f", "i", "l", "e", "s">>
          THEN /\ agent' = [agent EXCEPT !.files = <<>>]
               /\ UNCHANGED <<max_tool_calls, parameters, param_dict, pc, runvars,
                              framevars, stack, retval, history, result, raised>>
          ELSE StartMessage(user_input)

\* input() raises EOFError or KeyboardInterrupt: lines 580-585 end the chat
ChatInterrupted ==
    /\ pc \in {"chat", "save_prompt"}
    /\ pc' = "chat_done"
    /\ UNCHANGED <<config, runvars, framevars, stack, retval, history, result, raised>>

\* lines 554-562: the result is printed; returned files lead to the save prompt
ChatReturn ==
    /\ pc = "return"
    /\ stack = <<>>
    /\ result' = Some(retval)
    /\ pc' = IF Get(retval, "files", <<>>) # <<>> THEN "save_prompt" ELSE "chat"
    /\ UNCHANGED <<config, runvars, framevars, stack, retval, history, raised>>

\* lines 563-577: the answer to "save these files?"; on yes every file is saved
SaveFiles(choice) ==
    /\ pc = "save_prompt"
    /\ result' = IF lower(strip(choice)) \in { <<"y">>, <<"y", "e", "s">> }
                 THEN Some(Put(result[1], "saved_paths",
                               [i \in 1..Len(result[1]["files"]) |->
                                   <<".", result[1]["files"][i].name>>]))
                 ELSE result
    /\ pc' = "chat"
    /\ UNCHANGED <<config, runvars, framevars, stack, retval, history, raised>>

\* What the endpoint answers in a chat.
ChatAnswers(n) ==
    { Raise("ClientError") }
    \cup { Ok([completion |-> c]) :
             c \in { <<Chunk(<<"a">>)>>,
                     <<FilesEvent(<<FileData("f1", n)>>), Chunk(<<"b">>)>>,
                     <<Chunk(<<"a">>), ReturnControl(InvocationId(n, "first"), SampleCall)>>,
                     <<Chunk(<<"a">>), ReturnControl(InvocationId(n, "first"), MissingCall)>> } }

DoChatStart == \E sid \in { NoneOpt, Some("test-session-456") } : ChatStart(sid)
DoChatInput == \E line \in ChatLines : ChatInput(line)
DoChatRemoteCall == \E r \in ChatAnswers(Len(calls) + 1) : RemoteCall(r)
DoSaveFiles == \E choice \in SaveChoices : SaveFiles(choice)

ChatNext ==
    \/ DoChatStart
    \/ DoChatInput
    \/ ChatInterrupted
    \/ Enter
    \/ Prepare
    \/ DoChatRemoteCall
    \/ Process
    \/ Execute
    \/ Return
    \/ ChatReturn
    \/ DoSaveFiles

ChatSpec == ChatInit /\ [][ChatNext]_vars

----------------------------------------------------------------------------
(* convert_parameters called on its own, on any list of entries *)

MaxParams == 2

ParamNames == { "a", "b" }
NumberValues ==
    { <<"4", "2">>, <<"3", ".", "1", "4">>, <<"5", ".", "0">>, <<"-", "2">>, <<"0">>,
      <<"n", "o", "t", "_", "a", "_", "n", "u", "m", "b", "e", "r">> }
BooleanValues ==
    { <<"t", "r", "u", "e">>, <<"T", "R", "U", "E">>, <<"Y", "e", "s">>, <<"1">>,
      <<"f", "a", "l", "s", "e">>, <<"N", "o">>, <<"0">>, <<"m", "a", "y", "b", "e">> }
StringValues == { <<"h", "i">> }

ParamEntries ==
    { Param(n, v, "number") : n \in ParamNames, v \in NumberValues }
    \cup { Param(n, v, "boolean") : n \in ParamNames, v \in BooleanValues }
    \cup { Param(n, v, "string") : n \in ParamNames, v \in StringValues }

ParamLists == UNION { [1..n -> ParamEntries] : n \in 0..MaxParams }

ConvertInit ==
    /\ max_tool_calls = 1
    /\ agent = Agent(<<>>)
    /\ parameters \in ParamLists /\ param_dict = NoneOpt
    /\ Idle

Convert ==
    /\ param_dict = NoneOpt
    /\ param_dict' = Some(convert_parameters(parameters))
    /\ UNCHANGED <<max_tool_calls, agent, parameters, pc, runvars, framevars, stack,
                   retval, history, result, raised>>

ConvertSpec == ConvertInit /\ [][Convert]_vars

----------------------------------------------------------------------------
(* The tool registry on its own: add_function calls, then the schema and  *)
(* the function map as run builds them, then one tool call by name        *)

MaxFunctions == 3

\* function.__name__: a callable defined a second time keeps its name.
name_of(callable) ==
    IF callable = "sample_function (redefined)" THEN "sample_function" ELSE callable

Callables ==
    { "sample_function", "sample_function (redefined)", "type_error_function",
      "error_function" }
GroupChoices == { NoneOpt, Some("Utils") }

\* Agent._create_function, without a description argument
create_function(callable, action_group) ==
    Function(name_of(callable), callable, action_group)

RegistryInit ==
    /\ max_tool_calls = 1
    /\ agent \in { [Agent(<<>>) EXCEPT !.functions = <<>>, !.enable_code_interpreter = b] :
                     b \in BOOLEAN }
    /\ parameters = <<>> /\ param_dict = NoneOpt
    /\ Idle

\* Agent.add_function
add_function(callable, action_group) ==
    /\ pc = "idle"
    /\ Len(agent.functions) < MaxFunctions
    /\ agent' = [agent EXCEPT !.functions =
                     Append(@, create_function(callable, action_group))]
    /\ UNCHANGED <<max_tool_calls, parameters, param_dict, pc, runvars, framevars, stack,
                   retval, history, result, raised>>

\* Client.run, lines 445-448: the schema and the function map
Build ==
    /\ pc = "idle"
    /\ action_groups' = build_action_groups(agent)
    /\ function_map' = build_function_map(agent.functions, EmptyDict)
    /\ pc' = "built"
    /\ UNCHANGED <<config, session_id, framevars, stack, retval, history, result, raised>>

\* Client._invoke_agent, line 351: a tool-call request for a registered name
ExecuteNamed(function_name) ==
    /\ pc = "built"
    /\ function_name \in DOMAIN function_map
    /\ execs' = Append(execs, [function |-> function_name, params |-> EmptyDict,
                               result |-> execute_function(function_map, function_name,
                                                           EmptyDict)])
    /\ pc' = "executed"
    /\ UNCHANGED <<config, runvars, framevars, stack, retval, calls, responses, result,
                   raised>>

DoAddFunction == \E c \in Callables, g \in GroupChoices : add_function(c, g)
DoExecuteNamed == \E n \in { name_of(c) : c \in Callables } : ExecuteNamed(n)

RegistryNext ==
    \/ DoAddFunction
    \/ Build
    \/ DoExecuteNamed

RegistrySpec == RegistryInit /\ [][RegistryNext]_vars

----------------------------------------------------------------------------
(* The loop run for agents configured in each of the constructor's ways *)

\* ActionGroup(name=..., description=..., functions=[callables]):
\* ActionGroup._process_functions turns each callable into a Function of
\* the group
ActionGroup(name, description, callables) ==
    [name |-> name, description |-> description,
     functions |-> [i \in 1..Len(callables) |->
                       Function(name_of(callables[i]), callables[i], Some(name))]]

\* Agent(functions=[callables]): Agent._process_functions
FunctionsListAgent ==
    [Agent(<<>>) EXCEPT !.functions =
        <<create_function("sample_function", NoneOpt),
          create_function("type_error_function", NoneOpt)>>]

\* Agent(functions={group: [callables]}): Agent.__init__, lines 43-51
FunctionsDictAgent ==
    [Agent(<<>>) EXCEPT !.functions =
        <<create_function("sample_function", Some("DefaultActions")),
          create_function("type_error_function", Some("Utils"))>>]

\* Agent(action_groups=[ActionGroup(...)]): the functions list stays empty
ActionGroupsAgent ==
    [Agent(<<>>) EXCEPT
        !.functions = <<>>,
        !.action_groups =
            <<ActionGroup("DefaultActions", <<"Sample actions">>, <<"sample_function">>),
              ActionGroup("Utils", <<"Utilities">>, <<"type_error_function">>)>>]

\* Agent(functions=[...], action_groups=[...])
MixedAgent ==
    [Agent(<<>>) EXCEPT
        !.functions = <<create_function("type_error_function", Some("Utils"))>>,
        !.action_groups =
            <<ActionGroup("DefaultActions", <<"Sample actions">>, <<"sample_function">>)>>]

ConfigInit ==
    /\ max_tool_calls \in 1..MaxCeiling
    /\ agent \in { FunctionsListAgent, FunctionsDictAgent, ActionGroupsAgent, MixedAgent }
    /\ parameters = <<>> /\ param_dict = NoneOpt
    /\ Idle

ConfigSpec == ConfigInit /\ [][Next]_vars

----------------------------------------------------------------------------
(* bedrockInlineAgent.py: BedrockInlineAgent, the revision that keeps the  *)
(* turn counter, the session id and the registered functions on the        *)
(* instance                                                                *)

\* self.registered_functions after the decorators ran
registered_functions ==
    build_function_map(<<Function("sample_function", "sample_function", NoneOpt),
                         Function("error_function", "error_function", NoneOpt),
                         Function("return_none", "return_none", NoneOpt)>>, EmptyDict)

\* BedrockInlineAgent.__init__
InlineInit ==
    /\ max_tool_calls \in 1..MaxCeiling
    /\ agent = Agent(<<>>)
    /\ parameters = <<>> /\ param_dict = NoneOpt
    /\ pc = "idle"
    /\ session_id = Some(uuid4) /\ action_groups = <<>>
    /\ function_map = registered_functions
    /\ input_text = NoneOpt /\ invocation_id = NoneOpt /\ return_control_result = NoneOpt
    /\ accumulated_text = <<>> /\ tool_call_count = 0
    /\ params = EmptyDict /\ response = EmptyDict /\ output_files = <<>>
    /\ return_control = NoneOpt
    /\ stack = <<>> /\ retval = EmptyDict
    /\ calls = <<>> /\ responses = <<>> /\ execs = <<>>
    /\ result = NoneOpt /\ raised = NoneOpt

\* A top-level call invoke_agent(input_text=text): the instance's counter
\* is whatever the last call left
InlineInvoke(text) ==
    /\ pc = "idle"
    /\ tool_call_count < MaxCeiling + 2
    /\ input_text' = Some(text)
    /\ invocation_id' = NoneOpt /\ return_control_result' = NoneOpt
    /\ accumulated_text' = <<>>
    /\ params' = EmptyDict /\ response' = EmptyDict /\ return_control' = NoneOpt
    /\ calls' = <<>> /\ responses' = <<>> /\ execs' = <<>>
    /\ result' = NoneOpt
    /\ pc' = "enter"
    /\ UNCHANGED <<config, runvars, tool_call_count, output_files, stack, retval, raised>>

\* What invoke_agent returns to its caller: a string
InlineReturns(text) ==
    /\ result' = Some(text)
    /\ pc' = "done"

\* lines 196-198: count, and stop above the ceiling
InlineEnter ==
    /\ pc = "enter"
    /\ tool_call_count' = tool_call_count + 1
    /\ IF tool_call_count + 1 > max_tool_calls
       THEN InlineReturns(accumulated_text \o CeilingNotice)
       ELSE pc' = "call" /\ UNCHANGED result
    /\ UNCHANGED <<config, runvars, input_text, invocation_id, return_control_result,
                   accumulated_text, params, response, output_files, return_control,
                   stack, retval, history, raised>>

\* lines 205-228: the keyword arguments of invoke_inline_agent
InlineRequest ==
    LET base == [sessionId |-> session_id[1],
                 actionGroups |-> action_groups,
                 instruction |-> agent.instructions,
                 foundationModel |-> agent.model]
    IN IF input_text # NoneOpt
       THEN Put(Put(base, "inputText", input_text[1]), "enableTrace", TRUE)
       ELSE Put(base, "inlineSessionState",
                [invocationId |-> Unwrap(invocation_id),
                 returnControlInvocationResults |-> <<Unwrap(return_control_result)>>])

\* lines 203-228 and 301-303: the blocking call; a raise is caught and
\* reported as the returned string
InlineRemoteCall(r) ==
    /\ pc = "call"
    /\ params' = InlineRequest
    /\ calls' = Append(calls, InlineRequest)
    /\ responses' = Append(responses, r)
    /\ IF r.ok
       THEN /\ response' = r.v
            /\ pc' = "process"
            /\ UNCHANGED result
       ELSE /\ InlineReturns(<<"An error occurred: ", r.e>>)
            /\ UNCHANGED response
    /\ UNCHANGED <<config, runvars, input_text, invocation_id, return_control_result,
                   accumulated_text, tool_call_count, output_files, return_control,
                   stack, retval, execs, raised>>

\* lines 234-241: the scan; events other than chunks and requests are skipped
RECURSIVE inline_scan(_, _)
inline_scan(events, st) ==
    IF events = <<>> THEN Ok(st)
    ELSE LET event == Head(events)
         IN IF "returnControl" \in DOMAIN event
            THEN Ok([st EXCEPT !.return_control = Some(event["returnControl"])])
            ELSE IF "chunk" \in DOMAIN event /\ "bytes" \in DOMAIN event["chunk"]
            THEN LET text == decode(event["chunk"]["bytes"])
                 IN IF text.ok
                    THEN inline_scan(Tail(events), [st EXCEPT !.response_text = @ \o text.v])
                    ELSE text
            ELSE inline_scan(Tail(events), st)

\* lines 230-262: scan, accumulate; without a request the counter is reset
\* and the text returned
InlineProcess ==
    /\ pc = "process"
    /\ LET scanned == inline_scan(response["completion"], ScanStart)
           text == Accumulate(accumulated_text, scanned.v.response_text)
           rc == scanned.v.return_control[1]
           function_input ==
               Get(rc["invocationInputs"][1], "functionInvocationInput", EmptyDict)
       IN IF ~scanned.ok
          THEN /\ InlineReturns(<<"An error occurred: ", scanned.e>>)
               /\ UNCHANGED <<accumulated_text, tool_call_count, return_control>>
          ELSE /\ accumulated_text' = text
               /\ IF scanned.v.return_control = NoneOpt
                  THEN /\ tool_call_count' = 0
                       /\ InlineReturns(text)
                       /\ UNCHANGED return_control
                  ELSE IF rc["invocationInputs"] = <<>>
                  THEN /\ InlineReturns(<<"An error occurred: ", "list index out of range">>)
                       /\ UNCHANGED <<tool_call_count, return_control>>
                  ELSE /\ return_control' =
                            Some([invocationId |-> rc["invocationId"],
                                  function |-> Get(function_input, "function", "None"),
                                  actionGroup |-> Get(function_input, "actionGroup", "None"),
                                  parameters |-> Get(function_input, "parameters", <<>>)])
                       /\ pc' = "execute"
                       /\ UNCHANGED <<tool_call_count, result>>
    /\ UNCHANGED <<config, runvars, input_text, invocation_id, return_control_result,
                   params, response, output_files, stack, retval, history, raised>>

\* lines 270-299: convert, execute; without a result the text so far is
\* returned, otherwise invoke_agent calls itself with the packaged result
InlineExecute ==
    /\ pc = "execute"
    /\ LET rc == return_control[1]
           converted == convert_parameters(rc.parameters)
           tool_result == execute_function(function_map, rc.function, converted)
           body == json_dumps(tool_result)
       IN /\ execs' = Append(execs, [function |-> rc.function, params |-> converted,
                                     result |-> tool_result])
          /\ IF ~Truthy(tool_result)
             THEN /\ InlineReturns(accumulated_text)
                  /\ UNCHANGED <<input_text, invocation_id, return_control_result>>
             ELSE IF ~body.ok
             THEN /\ InlineReturns(<<"An error occurred: ", body.e>>)
                  /\ UNCHANGED <<input_text, invocation_id, return_control_result>>
             ELSE /\ input_text' = NoneOpt
                  /\ invocation_id' = Some(rc.invocationId)
                  /\ return_control_result' =
                         Some(function_result(rc.actionGroup, rc.function, body.v))
                  /\ pc' = "enter"
                  /\ UNCHANGED result
    /\ UNCHANGED <<config, runvars, accumulated_text, tool_call_count, params, response,
                   output_files, return_control, stack, retval, calls, responses, raised>>

\* The caller has the returned string and may call invoke_agent again.
InlineReturned ==
    /\ pc = "done"
    /\ pc' = "idle"
    /\ UNCHANGED <<config, runvars, framevars, stack, retval, history, result, raised>>

\* What the endpoint answers the inline agent.
InlineAnswers(n) ==
    { Raise("ClientError") }
    \cup { Ok([completion |-> c]) :
             c \in { <<Chunk(<<"a">>)>>,
                     <<BadChunk>>,
                     <<Chunk(<<"a">>), ReturnControl(InvocationId(n, "first"), SampleCall)>>,
                     <<Chunk(<<"a">>), ReturnControl(InvocationId(n, "first"), MissingCall)>>,
                     <<Chunk(<<"a">>), ReturnControl(InvocationId(n, "first"), <<>>)>> } }

DoInlineInvoke == \E text \in { <<"Hello">>, <<"Again">> } : InlineInvoke(text)
DoInlineRemoteCall == \E r \in InlineAnswers(Len(calls) + 1) : InlineRemoteCall(r)

InlineNext ==
    \/ DoInlineInvoke
    \/ InlineEnter
    \/ DoInlineRemoteCall
    \/ InlineProcess
    \/ InlineExecute
    \/ InlineReturned

InlineSpec == InlineInit /\ [][InlineNext]_vars

----------------------------------------------------------------------------
(* What the properties say about a run, read off the raw responses *)

IsCall(event) == "returnControl" \in DOMAIN event
HasCall(completion) == \E i \in 1..Len(completion) : IsCall(completion[i])
FirstCall(completion) ==
    CHOOSE i \in 1..Len(completion) :
        IsCall(completion[i]) /\ \A j \in 1..(i - 1) : ~IsCall(completion[j])
\* The events the turn consists of: those before the tool-call request.
TurnEvents(completion) ==
    IF HasCall(completion) THEN SubSeq(completion, 1, FirstCall(completion) - 1)
    ELSE completion
RequestOf(completion) == completion[FirstCall(completion)]["returnControl"]

IsText(event) == "chunk" \in DOMAIN event
RECURSIVE ChunkText(_)
ChunkText(events) ==
    IF events = <<>> THEN <<>>
    ELSE (IF IsText(Head(events)) THEN Head(events)["chunk"]["bytes"].text ELSE <<>>)
         \o ChunkText(Tail(events))
TurnText(completion) == ChunkText(TurnEvents(completion))
Decodable(completion) ==
    \A i \in 1..Len(completion) :
        IsText(completion[i]) => completion[i]["chunk"]["bytes"].valid

\* The texts joined by one newline, empty ones left out.
RECURSIVE JoinLines(_)
JoinLines(texts) ==
    IF texts = <<>> THEN <<>>
    ELSE LET rest == JoinLines(Tail(texts))
         IN IF Head(texts) = <<>> THEN rest
            ELSE IF rest = <<>> THEN Head(texts)
            ELSE Head(texts) \o <<"\n">> \o rest

Answered(k) == responses[k].ok
CompletionOf(k) == responses[k].v["completion"]
TextsUpTo(k) == [i \in 1..k |-> TurnText(CompletionOf(i))]

EchoCall ==
    <<FunctionInvocationInput("Utils", "type_error_function",
                              <<Param("x", <<"h", "i">>, "string")>>)>>
\* Requests whose registered tool returns a truthy, JSON-serializable value
UsableTargets == { SampleCall, EchoCall }
\* Requests whose tool is not registered, raises TypeError, or raises
\* another exception
FailingTargets ==
    { MissingCall,
      <<FunctionInvocationInput("Utils", "type_error_function", <<>>)>>,
      <<FunctionInvocationInput("Utils", "type_error_function",
                                <<Param("x", <<"n", "a", "n", "a">>, "number")>>)>>,
      <<FunctionInvocationInput("DefaultActions", "sample_function",
                                <<Param("x", <<"T", "r", "u", "e">>, "boolean")>>)>>,
      <<FunctionInvocationInput("DefaultActions", "error_function", <<>>)>> }

\* No plugin of the agent has a hook that raises.
NoRaisingHooks == \A i \in 1..Len(agent.plugins) : agent.plugins[i].cls # "FaultyPlugin"
\* No plugin of the agent has a hook that raises or rewrites the text.
NoFaultyHooks ==
    \A i \in 1..Len(agent.plugins) :
        agent.plugins[i].cls \in {"TestAgentPlugin", "GuardrailPlugin"}

Finished == pc = "done"
\* The text of the user message run was called with (its first request's
\* frame is the only one with input_text set).
UserTexts == { <<"Hello">>, <<"Again">> }
ResponseText == result[1]["response"]
ResultFiles == result[1]["files"]

----------------------------------------------------------------------------
(* C1: the remote calls made for one user message never exceed             *)
(* max_tool_calls, and with max_tool_calls <= 0 there is none.             *)
C1_CallsWithinCeiling ==
    Len(calls) <= (IF max_tool_calls > 0 THEN max_tool_calls ELSE 0)

C1_Witness == Finished /\ max_tool_calls >= 2 /\ Len(calls) = max_tool_calls

(* C2: when every turn answers with text followed by a request for a       *)
(* registered tool that returns a usable result, a run with                *)
(* max_tool_calls = N >= 1 makes exactly N remote calls and returns the    *)
(* text of the N turns followed by the ceiling notice.                     *)
EveryTurnCallsTool ==
    /\ responses # <<>>
    /\ \A k \in 1..Len(responses) :
          /\ Answered(k)
          /\ HasCall(CompletionOf(k))
          /\ TurnText(CompletionOf(k)) # <<>>
          /\ RequestOf(CompletionOf(k))["invocationInputs"] \in UsableTargets

C2_CeilingRun ==
    (Finished /\ max_tool_calls >= 1 /\ NoFaultyHooks /\ EveryTurnCallsTool)
    => /\ Len(calls) = max_tool_calls
       /\ ResponseText =
             JoinLines(TextsUpTo(Len(responses)))
             \o <<"\n", "\n",
                  "Reached maximum number of tool calls. Some tasks may be incomplete.">>

C2_Witness ==
    Finished /\ NoFaultyHooks /\ EveryTurnCallsTool /\ Len(calls) = 2

(* C3: every _invoke_agent call for a user message returns after finitely  *)
(* many turns, whatever the endpoint answers, when every single step       *)
(* returns (FairSpec).                                                     *)
C3_RunReturns == (pc = "enter") ~> (pc = "done")

C3_Witness == Finished /\ Len(execs) >= 2 /\ tool_call_count > max_tool_calls

(* C4: every outbound request carries exactly one turn input: the first    *)
(* request of a user message carries inputText and neither invocationId    *)
(* nor returnControlInvocationResults, every resumption request carries    *)
(* both of these and no inputText.                                         *)
C4_OneTurnInput ==
    \A k \in 1..Len(calls) :
        LET state == Get(calls[k], "inlineSessionState", EmptyDict)
        IN IF k = 1
           THEN /\ "inputText" \in DOMAIN calls[k]
                /\ calls[k]["inputText"] \in UserTexts
                /\ "invocationId" \notin DOMAIN state
                /\ "returnControlInvocationResults" \notin DOMAIN state
           ELSE /\ "inputText" \notin DOMAIN calls[k]
                /\ "invocationId" \in DOMAIN state
                /\ "returnControlInvocationResults" \in DOMAIN state

C4_Witness == Len(calls) >= 2 /\ pc = "process"

(* C5: when the response to remote call k-1 requests function F of action  *)
(* group G with invocation id I and the registered F returns a usable      *)
(* value v, remote call k carries invocationId = I and exactly one         *)
(* returnControlInvocationResults entry, tagged G and F, whose body is     *)
(* json.dumps(v); and that call is made whenever the ceiling leaves room.  *)
ExpectedBody(target) ==
    IF target = SampleCall
    THEN <<"{", "\"", "status", "\"", ": ", "\"", "success", "\"", "}">>
    ELSE <<"\"", "h", "i", "\"">>

C5_ResumptionCarriesResult ==
    /\ \A k \in 2..Len(calls) :
          LET request == RequestOf(CompletionOf(k - 1))
              target == request["invocationInputs"]
              asked == target[1]["functionInvocationInput"]
              state == calls[k]["inlineSessionState"]
          IN /\ target \in UsableTargets
             /\ state["invocationId"] = request["invocationId"]
             /\ state["returnControlInvocationResults"] =
                   << [functionResult |->
                         [actionGroup |-> asked["actionGroup"],
                          function |-> asked["function"],
                          responseBody |->
                             ("application/json" :> [body |-> ExpectedBody(target)])]] >>
    /\ (Finished /\ NoRaisingHooks)
       => \A k \in 1..Len(responses) :
             ( /\ Answered(k)
               /\ HasCall(CompletionOf(k))
               /\ RequestOf(CompletionOf(k))["invocationInputs"] \in UsableTargets
               /\ k < max_tool_calls )
             => Len(calls) > k

C5_Witness ==
    /\ Len(calls) >= 2
    /\ RequestOf(CompletionOf(1))["invocationInputs"] = EchoCall

(* C6: the response text of a user message that ends on a text-only turn   *)
(* is the per-turn texts (each the concatenation of the turn's chunks) in  *)
(* turn order joined by a single newline, turns without text skipped: no   *)
(* leading, trailing or doubled separator.                                 *)
EndsOnTextOnlyTurn ==
    /\ responses # <<>>
    /\ \A k \in 1..Len(responses) : Answered(k) /\ Decodable(CompletionOf(k))
    /\ ~HasCall(CompletionOf(Len(responses)))

C6_NewlineJoinedText ==
    (Finished /\ NoFaultyHooks /\ EndsOnTextOnlyTurn)
    => /\ ResponseText = JoinLines(TextsUpTo(Len(responses)))
       /\ ResponseText # <<>> => /\ ResponseText[1] # "\n"
                                 /\ ResponseText[Len(ResponseText)] # "\n"
       /\ \A i \in 1..(Len(ResponseText) - 1) :
             ~(ResponseText[i] = "\n" /\ ResponseText[i + 1] = "\n")

C6_Witness ==
    /\ Finished /\ NoFaultyHooks /\ EndsOnTextOnlyTurn
    /\ Len(responses) = 2
    /\ TurnText(CompletionOf(1)) # <<>>
    /\ TurnText(CompletionOf(2)) # <<>>

(* C7: a response without a tool-call request is the last remote call of   *)
(* its user message; a first response made of text chunks only gives       *)
(* exactly one remote call and the result {response: the concatenated      *)
(* chunk text, files: []}.                                                 *)
ChunksOnly(completion) ==
    /\ \A i \in 1..Len(completion) : IsText(completion[i])
    /\ Decodable(completion)

C7_NoCallNoFurtherTurn ==
    /\ \A k \in 1..Len(responses) :
          (Answered(k) /\ ~HasCall(CompletionOf(k))) => Len(calls) = k
    /\ ( /\ Finished /\ NoFaultyHooks
         /\ responses # <<>> /\ Answered(1) /\ ChunksOnly(CompletionOf(1)) )
       => /\ Len(calls) = 1
          /\ ResponseText = ChunkText(CompletionOf(1))
          /\ ResultFiles = <<>>
          /\ agent.plugins = <<>>
             => result[1] = [response |-> ChunkText(CompletionOf(1)), files |-> <<>>]

C7_Witness ==
    /\ Finished /\ agent.plugins = <<>>
    /\ Len(calls) = 1 /\ Answered(1)
    /\ ChunksOnly(CompletionOf(1))
    /\ Len(CompletionOf(1)) = 2

(* C8: when the tool requested on a turn is not registered, raises a       *)
(* TypeError or raises any other exception, no further remote call is made *)
(* for that user message and _invoke_agent returns normally with the text  *)
(* accumulated up to and including that turn.                              *)
ToolFailsAt(k) ==
    /\ Answered(k)
    /\ HasCall(CompletionOf(k))
    /\ RequestOf(CompletionOf(k))["invocationInputs"] \in FailingTargets

C8_ToolFailureEndsRun ==
    \A k \in 1..Len(responses) :
        ToolFailsAt(k)
        => /\ Len(calls) = k
           /\ pc # "raised"
           /\ (Finished /\ NoFaultyHooks)
              => ResponseText = JoinLines(TextsUpTo(k))

C8_Witness ==
    /\ Finished /\ NoFaultyHooks
    /\ Len(responses) = 2 /\ ToolFailsAt(2)
    /\ execs # <<>> /\ execs[Len(execs)].result = PyNone
    /\ ResponseText = <<"a", "\n", "a">>

(* C9: a remote call that raises is not retried, is the last remote call   *)
(* of its user message, and the run returns normally a result whose        *)
(* response is an error-message string.                                    *)
C9_TransportErrorEndsRun ==
    \A k \in 1..Len(responses) :
        ~Answered(k)
        => /\ Len(calls) = k
           /\ pc # "raised"
           /\ Finished
              => /\ ResponseText[1] = "An error occurred: "
                 /\ NoFaultyHooks => ResponseText = <<"An error occurred: ", "ClientError">>

C9_Witness == Finished /\ Len(responses) = 2 /\ ~Answered(2)

(* C10: no exception escapes _invoke_agent, whatever the endpoint, a tool, *)
(* a plugin hook or the JSON serialization of a tool result does: the only *)
(* exceptions run raises are the rejections of its message arguments, and  *)
(* they are raised before the first remote call.                           *)
RunArgumentErrors ==
    { "ValueError: Either 'message' or 'messages' must be provided",
      "ValueError: Only one of 'message' or 'messages' should be provided, not both",
      "ValueError: The last message must be from the user",
      "IndexError: list index out of range" }

RaisesUncalled(e) == pc' = "raised" /\ raised' = Some(e) /\ calls' = <<>> /\ result' = NoneOpt

C11_RunValidates ==
    [][\A a \in RunArgs :
          Run(a.message, a.messages, a.session_id)
          => /\ (a.message = NoneOpt /\ a.messages = NoneOpt)
                => RaisesUncalled("ValueError: Either 'message' or 'messages' must be provided")
             /\ (a.message # NoneOpt /\ a.messages # NoneOpt)
                => RaisesUncalled("ValueError: Only one of 'message' or 'messages' should be provided, not both")
             /\ ( /\ a.message = NoneOpt /\ a.messages # NoneOpt
                  /\ a.messages[1] # <<>>
                  /\ a.messages[1][Len(a.messages[1])].role # "user" )
                => RaisesUncalled("ValueError: The last message must be from the user")]_vars

C11_Witness ==
    /\ pc = "raised"
    /\ raised = Some("ValueError: The last message must be from the user")
    /\ calls = <<>>

(* C12: on every remote call of a run, first turn and resumptions alike,   *)
(* the request sent is the base request passed through each plugin's       *)
(* pre_invoke hook in registration order, each hook receiving the previous *)
(* hook's output: a key added by a pre_invoke hook is in every request the *)
(* endpoint observes.                                                      *)
BaseKeys ==
    { "sessionId", "actionGroups", "instruction", "foundationModel", "enableTrace",
      "inputText", "inlineSessionState" }
HookKeys == { "agent_plugin", "guardrailConfiguration" }

Registered(cls) == { i \in 1..Len(agent.plugins) : agent.plugins[i].cls = cls }
FirstRegistered(cls) ==
    agent.plugins[CHOOSE i \in Registered(cls) : \A j \in Registered(cls) : i <= j]

\* What the registered hooks, in order, make of a base request.
Hooked(base) ==
    LET tested == IF Registered("TestAgentPlugin") # {}
                  THEN Put(base, "agent_plugin", TRUE) ELSE base
    IN IF Registered("GuardrailPlugin") # {}
       THEN LET first == FirstRegistered("GuardrailPlugin")
            IN Put(tested, "guardrailConfiguration",
                   IF first.guardrail_version # NoneOpt
                   THEN [guardrailIdentifier |-> first.guardrail_id,
                         guardrailVersion |-> first.guardrail_version[1]]
                   ELSE [guardrailIdentifier |-> first.guardrail_id])
       ELSE tested

C12_PreInvokeOnEveryTurn ==
    \A k \in 1..Len(calls) :
        LET base == [key \in (DOMAIN calls[k]) \ HookKeys |-> calls[k][key]]
        IN /\ DOMAIN base \subseteq BaseKeys
           /\ calls[k] = Hooked(base)

C12_Witness ==
    /\ Len(calls) >= 2
    /\ Registered("GuardrailPlugin") # {}
    /\ calls[2]["guardrailConfiguration"] = [guardrailIdentifier |-> "g1"]
    /\ calls[2]["agent_plugin"] = TRUE

\* The file records of a turn: those of its files events, in event order.
IsFiles(event) == "files" \in DOMAIN event
RECURSIVE EventFiles(_)
EventFiles(events) ==
    IF events = <<>> THEN <<>>
    ELSE (IF IsFiles(Head(events))
          THEN LET fs == Head(events)["files"]["files"]
               IN [i \in 1..Len(fs) |->
                      [name |-> fs[i].name, content |-> fs[i].bytes, type |-> fs[i].type]]
          ELSE <<>>)
         \o EventFiles(Tail(events))
TurnFiles(completion) == EventFiles(TurnEvents(completion))
\* The file records of turns 1..k, in turn order.
RECURSIVE FilesUpTo(_)
FilesUpTo(k) == IF k = 0 THEN <<>> ELSE FilesUpTo(k - 1) \o TurnFiles(CompletionOf(k))

(* C13: when a run ends on a turn without a tool-call request, after any   *)
(* number of turns, the result returned equals the assembled {text         *)
(* accumulated over all turns, files collected over all turns} passed once *)
(* through each plugin's post_process hook in registration order.          *)
AssembledResult ==
    [response |-> JoinLines(TextsUpTo(Len(responses))),
     files |-> FilesUpTo(Len(responses))]

C13_PostProcessedOnce ==
    (Finished /\ NoRaisingHooks /\ EndsOnTextOnlyTurn)
    => retval = ApplyPostProcess(agent.plugins, AssembledResult).v

(* C14 as stated: the files of the result returned for a user message are *)
(* the file records collected on all of its turns, in turn order and in    *)
(* event order within a turn, however the run ends.                        *)
AnsweredTurns ==
    IF responses # <<>> /\ ~Answered(Len(responses))
    THEN Len(responses) - 1 ELSE Len(responses)

C14_AllFilesReturned == Finished => ResultFiles = FilesUpTo(AnsweredTurns)

(* C14, amended: the files of the result are the file records collected on *)
(* all turns, in turn order and in event order within a turn, when the run *)
(* ends on a turn without a tool-call request, by a tool failure or by the *)
(* turn ceiling; when the run ends with the error response, the result     *)
(* holds the files of the first k turns only, for some k.                  *)
ErrorEnded == ResponseText # <<>> /\ ResponseText[1] = "An error occurred: "

C14_FilesInTurnOrder ==
    Finished
    => IF ErrorEnded
       THEN \E k \in 0..AnsweredTurns : ResultFiles = FilesUpTo(k)
       ELSE ResultFiles = FilesUpTo(AnsweredTurns)

C14_Witness ==
    /\ Finished /\ ~ErrorEnded
    /\ Len(responses) = 2 /\ ToolFailsAt(2)
    /\ Len(TurnFiles(CompletionOf(1))) = 3
    /\ Len(TurnFiles(CompletionOf(2))) = 3
    /\ Len(ResultFiles) = 6

(* C15: _execute_function never raises: it returns None when the name is   *)
(* not in the function map, when the call raises TypeError and when it     *)
(* raises any other exception; otherwise it returns the tool's return      *)
(* value, the tool being called with the converted arguments as keywords,  *)
(* or with no arguments when the argument map is empty.                    *)
RegisteredNames ==
    { "sample_function", "type_error_function", "error_function", "return_none",
      "return_set" }

\* What a call of _execute_function must have returned.
ExpectedReturn(exec) ==
    IF exec.function \notin RegisteredNames THEN PyNone
    ELSE IF exec.function = "type_error_function"
    THEN IF DOMAIN exec.params = {"x"} THEN exec.params["x"] ELSE PyNone
    ELSE IF exec.params # EmptyDict THEN PyNone
    ELSE IF exec.function = "sample_function"
    THEN PyDict(<< <<"status", PyStr(<<"success">>)>> >>)
    ELSE IF exec.function = "return_set" THEN PySet
    ELSE PyNone

C15_ExecuteFunctionTotal ==
    /\ \A i \in 1..Len(execs) : execs[i].result = ExpectedReturn(execs[i])
    /\ execs # <<>> => pc # "raised"

C15_Witness ==
    /\ Len(execs) = 2
    /\ execs[1].function = "type_error_function"
    /\ execs[1].params = [x |-> PyStr(<<"h", "i">>)]
    /\ execs[1].result = PyStr(<<"h", "i">>)
    /\ execs[2].function = "error_function"
    /\ execs[2].result = PyNone

\* The last entry named n that yields a value (0 when there is none): a
\* number entry yields one when its text is in the float grammar.
Yields(entry) ==
    entry.type = "number"
    => entry.value # <<"n", "o", "t", "_", "a", "_", "n", "u", "m", "b", "e", "r">>
Effective(n) ==
    LET idx == { i \in 1..Len(parameters) : parameters[i].name = n /\ Yields(parameters[i]) }
    IN IF idx = {} THEN 0 ELSE CHOOSE i \in idx : \A j \in idx : j <= i

(* C16: for every entry of type "number", a value that parses as a float   *)
(* maps to that number, narrowed to an integer when it has no fractional   *)
(* part; a value that does not parse is left out of the result while every *)
(* other entry is still converted, and no exception is raised.             *)
ExpectedNumber(value) ==
    CASE value = <<"4", "2">> -> PyInt(42)
      [] value = <<"3", ".", "1", "4">> -> PyFloat(314, 2)
      [] value = <<"5", ".", "0">> -> PyInt(5)
      [] value = <<"-", "2">> -> PyInt(0 - 2)
      [] value = <<"0">> -> PyInt(0)

C16_NumberConversion ==
    param_dict # NoneOpt
    => /\ DOMAIN param_dict[1] = { n \in ParamNames : Effective(n) # 0 }
       /\ \A n \in DOMAIN param_dict[1] :
             parameters[Effective(n)].type = "number"
             => param_dict[1][n] = ExpectedNumber(parameters[Effective(n)].value)

C16_Witness ==
    /\ param_dict = Some([b |-> PyInt(5)])
    /\ parameters[1].type = "number" /\ ~Yields(parameters[1])
    /\ parameters[2].value = <<"5", ".", "0">>

(* C17: for every entry of type "boolean", a value in {true, yes, 1},      *)
(* compared case-insensitively, maps to true, a value in {false, no, 0}    *)
(* maps to false, and any other value is kept as the original string,      *)
(* without error.                                                          *)
ExpectedBoolean(value) ==
    CASE value \in { <<"t", "r", "u", "e">>, <<"T", "R", "U", "E">>, <<"Y", "e", "s">>,
                     <<"1">> } -> PyBool(TRUE)
      [] value \in { <<"f", "a", "l", "s", "e">>, <<"N", "o">>, <<"0">> } -> PyBool(FALSE)
      [] OTHER -> PyStr(value)

C17_BooleanConversion ==
    param_dict # NoneOpt
    => \A n \in ParamNames :
          (Effective(n) # 0 /\ parameters[Effective(n)].type = "boolean")
          => /\ n \in DOMAIN param_dict[1]
             /\ param_dict[1][n] = ExpectedBoolean(parameters[Effective(n)].value)

C17_Witness ==
    /\ param_dict = Some([a |-> PyBool(TRUE), b |-> PyStr(<<"m", "a", "y", "b", "e">>)])
    /\ parameters[1].value = <<"Y", "e", "s">>

\* The schema entries listing a name: <<descriptor index, position>> pairs.
Listings(function_name) ==
    { <<g, j>> \in (1..Len(action_groups)) \X (1..MaxFunctions + 2) :
         /\ "functionSchema" \in DOMAIN action_groups[g]
         /\ j <= Len(action_groups[g]["functionSchema"]["functions"])
         /\ action_groups[g]["functionSchema"]["functions"][j]["name"] = function_name }
ListedNames ==
    { action_groups[g]["functionSchema"]["functions"][j]["name"] :
         <<g, j>> \in { <<g, j>> \in (1..Len(action_groups)) \X (1..MaxFunctions + 2) :
                           /\ "functionSchema" \in DOMAIN action_groups[g]
                           /\ j <= Len(action_groups[g]["functionSchema"]["functions"]) } }
Built == pc \in {"built", "executed"}
\* The registered tools form a set: no name registered twice.
DistinctTools ==
    \A i, j \in 1..Len(agent.functions) :
        agent.functions[i].name = agent.functions[j].name => i = j

(* C18: for every set of tools registered through the functions list or    *)
(* dict, the descriptors built by _build_action_groups partition it: every *)
(* tool is listed in exactly one group descriptor, the one named by its    *)
(* action group or DefaultActions when it has none, no descriptor lists a  *)
(* tool that was not registered, and an empty tool set without code        *)
(* interpreter gives an empty list.                                        *)
C18_GroupsPartitionTools ==
    (Built /\ DistinctTools)
    => /\ \A i \in 1..Len(agent.functions) :
             LET f == agent.functions[i]
             IN /\ Cardinality(Listings(f.name)) = 1
                /\ \A l \in Listings(f.name) :
                      action_groups[l[1]]["actionGroupName"] =
                         (IF f.action_group = NoneOpt THEN "DefaultActions"
                          ELSE f.action_group[1])
       /\ ListedNames = { agent.functions[i].name : i \in 1..Len(agent.functions) }
       /\ \A g, h \in 1..Len(action_groups) :
             action_groups[g]["actionGroupName"] = action_groups[h]["actionGroupName"]
             => g = h
       /\ \A g \in 1..Len(action_groups) :
             "functionSchema" \in DOMAIN action_groups[g]
             => action_groups[g]["functionSchema"]["functions"] # <<>>
       /\ (agent.functions = <<>> /\ ~agent.enable_code_interpreter) => action_groups = <<>>

C18_Witness ==
    /\ Built /\ DistinctTools
    /\ Len(agent.functions) = 3
    /\ Len(action_groups) = 2
    /\ Len(action_groups[1]["functionSchema"]["functions"]) = 2
    /\ action_groups[2]["actionGroupName"] = "Utils"

(* C19: registering a callable whose name is already registered overwrites *)
(* the earlier registration: after any sequence of add_function calls the  *)
(* agent holds exactly one tool per name (the most recently registered     *)
(* callable), the schema lists each name once, and a tool-call request for *)
(* that name runs the later callable.                                      *)
LastRegistered(function_name) ==
    LET idx == { i \in 1..Len(agent.functions) : agent.functions[i].name = function_name }
    IN agent.functions[CHOOSE i \in idx : \A j \in idx : j <= i]

LaterCallableRuns ==
    \A i \in 1..Len(execs) :
        execs[i].result =
           (CASE LastRegistered(execs[i].function).function = "sample_function" ->
                     PyDict(<< <<"status", PyStr(<<"success">>)>> >>)
              [] LastRegistered(execs[i].function).function = "sample_function (redefined)" ->
                     PyDict(<< <<"status", PyStr(<<"replaced">>)>> >>)
              [] OTHER -> PyNone)

C19_ReRegistrationOverwrites ==
    Built
    => /\ DistinctTools
       /\ \A i \in 1..Len(agent.functions) :
             Cardinality(Listings(agent.functions[i].name)) = 1
       /\ \A n \in DOMAIN function_map : function_map[n] = LastRegistered(n).function
       /\ LaterCallableRuns

(* C20: all remote calls made for one user message carry the same session  *)
(* id, the caller's when one was supplied, and the same tool schema,       *)
(* instruction and model identifier; the loop never modifies the schema    *)
(* descriptor list or the function map during a run.                       *)
InRun == pc \notin {"idle", "raised"}

C20_RunConstants ==
    /\ \A k \in 1..Len(calls) :
          /\ calls[k]["sessionId"] = calls[1]["sessionId"]
          /\ calls[k]["sessionId"] =
                (IF calls[1]["inputText"] = <<"Again">> THEN "test-session"
                 ELSE "generated-uuid4")
          /\ calls[k]["actionGroups"] = calls[1]["actionGroups"]
          /\ calls[k]["actionGroups"] = action_groups
          /\ calls[k]["instruction"] = "You are a test agent"
          /\ calls[k]["foundationModel"] = "us.anthropic.claude-3-5-sonnet-20241022-v2:0"
    /\ InRun
       => /\ action_groups = build_action_groups(agent)
          /\ Len(action_groups) = 2
          /\ function_map = [n \in RegisteredNames |-> n]

C20_Witness ==
    /\ Len(calls) >= 2
    /\ calls[1]["sessionId"] = "test-session"
    /\ calls[2]["sessionId"] = "test-session"
    /\ execs # <<>>

(* C21: within one response the scan stops at the first tool-call request: *)
(* the text chunks and files before it are kept in the accumulated result, *)
(* and the events after it in the same response (text, files, a second     *)
(* request) change neither the result nor the tool that is executed.       *)
\* The events of a response that follow its first tool-call request.
EventsAfterCall(completion) ==
    IF HasCall(completion)
    THEN SubSeq(completion, FirstCall(completion) + 1, Len(completion))
    ELSE <<>>
RequestedFunction(completion) ==
    RequestOf(completion)["invocationInputs"][1]["functionInvocationInput"]["function"]

C21_ScanStopsAtFirstRequest ==
    /\ Len(execs) <= Len(responses)
    /\ \A k \in 1..Len(execs) :
          /\ Answered(k) /\ HasCall(CompletionOf(k))
          /\ execs[k].function = RequestedFunction(CompletionOf(k))
    /\ pc = "execute"
       => LET k == Len(responses)
          IN /\ accumulated_text = JoinLines(TextsUpTo(k))
             /\ output_files = TurnFiles(CompletionOf(k))
             /\ return_control[1].invocationId = RequestOf(CompletionOf(k))["invocationId"]
             /\ return_control[1].function = RequestedFunction(CompletionOf(k))
    /\ (Finished /\ NoFaultyHooks /\ ~ErrorEnded)
       => /\ ResponseText \in { JoinLines(TextsUpTo(AnsweredTurns)),
                                JoinLines(TextsUpTo(AnsweredTurns)) \o CeilingNotice }
          /\ ResultFiles = FilesUpTo(AnsweredTurns)

C21_Witness ==
    /\ Finished /\ NoFaultyHooks /\ ~ErrorEnded
    /\ Len(responses) = 2 /\ Len(execs) = 1
    /\ Len(EventsAfterCall(CompletionOf(1))) = 3
    /\ execs[1].function = "sample_function"
    /\ ResponseText = <<"a", "\n", "a", "b">>
    /\ ResultFiles = <<>>

(* C22: within a run the events of each turn occur in a fixed order: all   *)
(* pre_invoke hooks, one remote call, all post_invoke hooks in             *)
(* registration order, the scan, then at most one tool execution; the next *)
(* turn's remote call is issued only after that execution has returned, so *)
(* at most one remote call is outstanding and each plugin's post_invoke    *)
(* runs exactly once per remote call that returned.                        *)
\* The names of the agent's stamping plugins, in registration order.
RECURSIVE StampNames(_)
StampNames(plugins) ==
    IF plugins = <<>> THEN <<>>
    ELSE (IF Head(plugins).cls = "StampPlugin" THEN <<Head(plugins).name>> ELSE <<>>)
         \o StampNames(Tail(plugins))
Stamps(d) == Get(d, "stamps", <<>>)

TurnsInOrder ==
    /\ Len(responses) = Len(calls)
    /\ Len(execs) <= Len(calls) /\ Len(calls) <= Len(execs) + 1
    /\ \A k \in 1..Len(calls) :
          /\ Stamps(calls[k]) = StampNames(agent.plugins)
          /\ Answered(k) => Stamps(responses[k].v) = <<>>
    /\ pc = "execute" => Stamps(response) = StampNames(agent.plugins)

TurnStepsInOrder ==
    /\ Len(calls') > Len(calls)
       => /\ pc = "call"
          /\ calls' = Append(calls, params)
          /\ Len(responses') = Len(calls')
          /\ Len(execs) = Len(calls)
          /\ execs' = execs
    /\ Len(execs') > Len(execs)
       => /\ pc = "execute"
          /\ Len(execs') = Len(execs) + 1
          /\ Len(execs') = Len(responses)
          /\ calls' = calls
    /\ (pc = "process" /\ response' # response)
       => /\ response = responses[Len(responses)].v
          /\ Stamps(response') = StampNames(agent.plugins)
          /\ calls' = calls /\ execs' = execs
    /\ (pc = "process" /\ pc' = "execute") => response' # response

C22_TurnOrder == []TurnsInOrder /\ [][TurnStepsInOrder]_vars

C22_Witness ==
    /\ pc = "execute" /\ Len(calls) = 2 /\ Len(execs) = 1
    /\ Stamps(calls[2]) = <<"p1", "p2">>
    /\ Stamps(response) = <<"p1", "p2">>
    /\ Stamps(responses[2].v) = <<>>

(* C23: while the agent has attached input files, every outbound request,  *)
(* first turn and resumption turns alike, carries all of them in           *)
(* inlineSessionState.files; the loop never removes an attached file, and  *)
(* in chat only the 'clear files' command empties the list, so attached    *)
(* files are sent again with every later user message.                     *)
InLoop == pc \in {"enter", "prepare", "call", "process", "execute", "return"}
SentFiles(request) ==
    IF "inlineSessionState" \in DOMAIN request
    THEN Get(request["inlineSessionState"], "files", <<>>)
    ELSE <<>>
AttachedFiles ==
    [i \in 1..Len(agent.files) |->
        [name |-> agent.files[i].name,
         source |-> [byteContent |-> [data |-> agent.files[i].content,
                                      mediaType |-> agent.files[i].media_type],
                     sourceType |-> "BYTE_CONTENT"],
         useCase |-> agent.files[i].use_case]]
ClearFiles == <<"c", "l", "e", "a", "r", " ", "f", "i", "l", "e", "s">>

FilesSentOnEveryTurn ==
    InLoop => \A k \in 1..Len(calls) : SentFiles(calls[k]) = AttachedFiles

FilesKeptByLoop ==
    /\ Len(calls') > Len(calls) => SentFiles(calls'[Len(calls')]) = AttachedFiles
    /\ agent.files' # agent.files
       => /\ pc = "chat" /\ pc' = "chat"
          /\ \/ /\ Len(agent.files') = Len(agent.files) + 1
                /\ SubSeq(agent.files', 1, Len(agent.files)) = agent.files
             \/ /\ agent.files' = <<>>
                /\ \E line \in ChatLines :
                      lower(strip(line)) = ClearFiles /\ ChatInput(line)

C23_AttachedFilesResent == []FilesSentOnEveryTurn /\ [][FilesKeptByLoop]_vars

C23_Witness ==
    /\ pc = "process" /\ result # NoneOpt
    /\ Len(agent.files) = 2
    /\ Len(calls) = 2
    /\ "inputText" \in DOMAIN calls[1] /\ Len(SentFiles(calls[1])) = 2
    /\ "returnControlInvocationResults" \in DOMAIN calls[2]["inlineSessionState"]
    /\ SentFiles(calls[2]) = AttachedFiles
    /\ SentFiles(calls[2])[1].name = "b.txt"
    /\ SentFiles(calls[2])[2].name = "a.csv"

(* C24: in Client.chat the inputs exit or quit (in any letter case), an    *)
(* empty line, a 'file:' command and 'clear files' never cause a remote    *)
(* call; every other input starts exactly one invocation loop with the     *)
(* turn counter reset to 0 and the session id fixed when the chat started, *)
(* so the ceiling applies per user message and all messages of one chat    *)
(* share one session id.                                                   *)
CommandLines ==
    { <<>>,
      <<" ", " ">>,
      <<" ", "E", "x", "i", "t", " ">>,
      <<"Q", "U", "I", "T">>,
      <<"C", "l", "e", "a", "r", " ", "F", "i", "l", "e", "s">>,
      <<"f", "i", "l", "e", ":", " ", "a.csv">>,
      <<"f", "i", "l", "e", ":", "missing.csv">> }
\* The other lines, as the loop receives them.
MessageLines ==
    { [line |-> <<"e", "x", "i", "t", " ", "now">>, text |-> <<"e", "x", "i", "t", " ", "now">>],
      [line |-> <<"F", "i", "l", "e", ":", "a.csv">>, text |-> <<"F", "i", "l", "e", ":", "a.csv">>],
      [line |-> <<"Hello">>, text |-> <<"Hello">>] }
EndsWithNotice(text) ==
    /\ Len(text) >= Len(CeilingNotice)
    /\ SubSeq(text, Len(text) - Len(CeilingNotice) + 1, Len(text)) = CeilingNotice

ChatCeilingPerMessage ==
    /\ ChatLines = CommandLines \cup { m.line : m \in MessageLines }
    /\ InLoop => /\ Len(calls) <= max_tool_calls
                 /\ tool_call_count <= max_tool_calls + 1
                 /\ tool_call_count <= Len(calls) + 1
                 /\ \A k \in 1..Len(calls) : calls[k]["sessionId"] = session_id[1]
    /\ (pc = "return" /\ stack = <<>> /\ max_tool_calls >= 1) => Len(calls) >= 1

ChatStep ==
    /\ \A line \in CommandLines :
          ChatInput(line) => /\ calls' = calls /\ responses' = responses
                             /\ pc' \in {"chat", "chat_done"}
                             /\ tool_call_count' = tool_call_count
    /\ \A m \in MessageLines :
          ChatInput(m.line) => /\ pc' = "enter"
                               /\ tool_call_count' = 0
                               /\ input_text' = Some(m.text)
                               /\ calls' = <<>> /\ stack' = <<>>
                               /\ accumulated_text' = <<>>
    /\ Len(calls') > Len(calls) => pc = "call"
    /\ (pc = "chat" /\ pc' = "enter") => \E m \in MessageLines : ChatInput(m.line)
    /\ pc' = "enter" => pc \in {"chat", "execute"}
    /\ pc # "idle" => session_id' = session_id
    /\ (pc = "idle" /\ pc' # "idle")
       => session_id' \in { Some(uuid4), Some("test-session-456") }

C24_ChatCommands == []ChatCeilingPerMessage /\ [][ChatStep]_vars

C24_Witness ==
    /\ pc = "return" /\ stack = <<>>
    /\ max_tool_calls = 1 /\ Len(calls) = 1 /\ Len(execs) = 1
    /\ result # NoneOpt /\ EndsWithNotice(result[1]["response"])
    /\ EndsWithNotice(retval["response"])
    /\ calls[1]["sessionId"] = "test-session-456"
    /\ input_text = NoneOpt

(* C25: for every way of configuring an agent (functions list, functions   *)
(* dict, or explicit action_groups passed to the constructor), every       *)
(* function name listed in the schema that is sent to the endpoint is a    *)
(* key of the function map built for the same run, so a tool-call request  *)
(* for an advertised tool is executed and never reported as not            *)
(* registered.                                                             *)
AdvertisedNames(groups) ==
    UNION { { groups[g]["functionSchema"]["functions"][j]["name"] :
                 j \in 1..Len(groups[g]["functionSchema"]["functions"]) } :
            g \in { h \in 1..Len(groups) : "functionSchema" \in DOMAIN groups[h] } }

AdvertisedToolsRegistered ==
    /\ \A k \in 1..Len(calls) :
          AdvertisedNames(calls[k]["actionGroups"]) \subseteq DOMAIN function_map
    /\ \A k \in 1..Len(execs) :
          (calls # <<>> /\ execs[k].function \in AdvertisedNames(calls[1]["actionGroups"]))
          => /\ execs[k].function \in DOMAIN function_map
             /\ (execs[k].function = "sample_function" /\ execs[k].params = EmptyDict)
                => execs[k].result = PyDict(<< <<"status", PyStr(<<"success">>)>> >>)

C25_AdvertisedToolsRegistered == AdvertisedToolsRegistered

\* The same for the agents configured through functions only.
C25_FunctionsOnly == agent.action_groups = <<>> => AdvertisedToolsRegistered

(* C26: a tool that returns normally a falsy value (None, 0, False, an     *)
(* empty string, an empty list or dict) is handled exactly like a failed   *)
(* tool: its result is not sent back, no further remote call is made for   *)
(* that user message, and the run returns the text accumulated so far.     *)
FalsyValues ==
    { PyNone, PyInt(0), PyBool(FALSE), PyStr(<<>>), PyList(<<>>), PyDict(<<>>) }
\* The tool executed on turn k returned normally a falsy value.
ReturnsFalsyAt(k) ==
    /\ k <= Len(execs)
    /\ execs[k].function \in FalsyTools
    /\ execs[k].result \in FalsyValues
\* The tool executed on turn k failed.
FailsAt(k) == k <= Len(execs) /\ execs[k].function = "error_function"
EndsRunAt(k) ==
    /\ Len(calls) = k
    /\ pc \in {"return", "done", "idle"}
    /\ pc = "return" => /\ stack # <<>> \/ retval["response"] = JoinLines(TextsUpTo(k))
                        /\ retval["files"] = <<>>
    /\ Finished => /\ ResponseText = JoinLines(TextsUpTo(k))
                   /\ ResultFiles = <<>>

C26_FalsyResultEndsRun ==
    /\ \A k \in 1..Len(execs) :
          /\ execs[k].function \in FalsyTools => ReturnsFalsyAt(k)
          /\ (ReturnsFalsyAt(k) \/ FailsAt(k)) => EndsRunAt(k)
          /\ execs[k].function \in {"sample_function", "return_number", "return_list"}
             => pc \notin {"return", "done"} \/ Len(calls) > k
                \/ tool_call_count > max_tool_calls
    /\ \A k \in 2..Len(calls) :
          k - 1 <= Len(execs) /\ ~ReturnsFalsyAt(k - 1) /\ ~FailsAt(k - 1)

C26_Witness ==
    /\ Finished /\ Len(calls) = 2 /\ Len(execs) = 2
    /\ execs[1].function = "return_list"
    /\ execs[2].function = "return_empty_list" /\ execs[2].result = PyList(<<>>)
    /\ ResponseText = <<"a", "\n", "a">>

C26_WitnessZero ==
    /\ Finished /\ Len(execs) = 1
    /\ execs[1].function = "return_zero" /\ execs[1].result = PyInt(0)
    /\ ResponseText = <<"a">>

(* C27: when the remote call of a resumption turn (turn k > 1) raises, the *)
(* response returned to the caller is only the error-message string, the   *)
(* text accumulated on turns 1..k-1 being no part of it, while the files   *)
(* collected on turns 1..k-1 are still returned.                           *)
ResumptionCallRaised ==
    Finished /\ Len(responses) >= 2 /\ ~Answered(Len(responses))
ChunkTokens == { "a", "b", "c" }

C27_ResumptionErrorResult ==
    ResumptionCallRaised
    => /\ ResponseText[1] = "An error occurred: "
       /\ \A i \in 1..Len(ResponseText) : ResponseText[i] \notin ChunkTokens
       /\ NoFaultyHooks => ResponseText = <<"An error occurred: ", "ClientError">>
       /\ NoRaisingHooks => ResultFiles = FilesUpTo(Len(responses) - 1)

C27_Witness ==
    /\ ResumptionCallRaised /\ NoFaultyHooks
    /\ Len(responses) = 2
    /\ TurnText(CompletionOf(1)) = <<"b">>
    /\ Len(ResultFiles) = 3
    /\ ResultFiles = TurnFiles(CompletionOf(1))
    /\ ResponseText = <<"An error occurred: ", "ClientError">>

(* C28: when a run is stopped by the turn ceiling after N remote calls, N  *)
(* tools have been executed but only N-1 tool results were sent to the     *)
(* endpoint: the result of the tool executed after the last remote call is *)
(* discarded.                                                              *)
StoppedByCeiling ==
    /\ Finished /\ max_tool_calls >= 1
    /\ \/ tool_call_count > max_tool_calls
       \/ NoFaultyHooks /\ EndsWithNotice(ResponseText)
CarriesResult(request) ==
    /\ "inlineSessionState" \in DOMAIN request
    /\ "returnControlInvocationResults" \in DOMAIN request["inlineSessionState"]
ResultsSent == { k \in 1..Len(calls) : CarriesResult(calls[k]) }
SentBody(request) ==
    request["inlineSessionState"]["returnControlInvocationResults"][1]
        ["functionResult"]["responseBody"]["application/json"].body

C28_LastResultDiscarded ==
    StoppedByCeiling
    => /\ Len(calls) = max_tool_calls
       /\ Len(execs) = Len(calls)
       /\ \A k \in 1..Len(execs) :
             Truthy(execs[k].result) /\ json_dumps(execs[k].result).ok
       /\ ResultsSent = 2..Len(calls)
       /\ Cardinality(ResultsSent) = Len(execs) - 1
       /\ \A k \in ResultsSent : SentBody(calls[k]) = json_dumps(execs[k - 1].result).v
       /\ return_control_result # NoneOpt
       /\ return_control_result[1]["functionResult"]["responseBody"]["application/json"].body
             = json_dumps(execs[Len(execs)].result).v
       /\ return_control_result[1]["functionResult"]["function"]
             = execs[Len(execs)].function

C28_Witness ==
    /\ StoppedByCeiling /\ NoFaultyHooks
    /\ max_tool_calls = 2 /\ Len(execs) = 2 /\ Len(calls) = 2
    /\ execs[1].function = "sample_function"
    /\ execs[2].function = "type_error_function"
    /\ Cardinality(ResultsSent) = 1
    /\ return_control_result[1]["functionResult"]["function"] = "type_error_function"

(* C29: across the turns of one run, and across successive runs with the   *)
(* same agent, the knowledgeBases list of each outbound request contains   *)
(* exactly one entry per KnowledgeBasePlugin of the agent plus the entries *)
(* the caller put in advanced_config: the list does not grow from one      *)
(* remote call to the next, and the agent's advanced_config is left        *)
(* unchanged by a run.                                                     *)
RECURSIVE PluginEntries(_)
PluginEntries(plugins) ==
    IF plugins = <<>> THEN <<>>
    ELSE (IF Head(plugins).cls = "KnowledgeBasePlugin"
          THEN << IF Head(plugins).knowledge_base_id = "kb-2"
                  THEN [knowledgeBaseId |-> "kb-2",
                        retrievalConfiguration |-> [numberOfResults |-> 5]]
                  ELSE IF Head(plugins).description # NoneOpt
                  THEN [knowledgeBaseId |-> "kb-1",
                        description |-> <<"Company documentation">>]
                  ELSE [knowledgeBaseId |-> "kb-1"] >>
          ELSE <<>>)
         \o PluginEntries(Tail(plugins))
CallerHasKnowledgeBases == "knowledgeBases" \in DOMAIN agent.advanced_config
ExpectedKnowledgeBases ==
    (IF CallerHasKnowledgeBases THEN CallerKnowledgeBases ELSE <<>>)
    \o PluginEntries(agent.plugins)

KnowledgeBasesStable ==
    /\ \A k \in 1..Len(calls) : calls[k]["knowledgeBases"] = ExpectedKnowledgeBases
    /\ agent \in KnowledgeAgents

C29_KnowledgeBasesStable == KnowledgeBasesStable

\* The same for callers that put no knowledge bases in advanced_config.
C29_WithoutCallerEntries == ~CallerHasKnowledgeBases => KnowledgeBasesStable

(* C30: in the BedrockInlineAgent revision, for any sequence of top-level  *)
(* invoke_agent(input_text=...) calls on one instance, whenever such a     *)
(* call returns (by final text, tool failure, caught error or the ceiling) *)
(* the instance's tool_call_count is 0 again, so every user message gets   *)
(* the full budget of max_tool_calls remote calls regardless of how        *)
(* earlier messages ended.                                                 *)
InlineReturnedNow == pc = "done"

C30_CounterResetOnReturn == InlineReturnedNow => tool_call_count = 0

\* The same for calls that return by final text only.
C30_ResetOnFinalText ==
    ( /\ InlineReturnedNow
      /\ responses # <<>> /\ Answered(Len(responses))
      /\ Decodable(CompletionOf(Len(responses)))
      /\ ~HasCall(CompletionOf(Len(responses))) )
    => tool_call_count = 0

\* The budget a message gets after the ceiling stopped an earlier one.
C30_BudgetAfterCeiling ==
    (InlineReturnedNow /\ calls = <<>>) => tool_call_count > max_tool_calls

====
